---- MODULE Spec2Model ----
(***************************************************************************)
(* Verification model of the RESP key/value server.                        *)
(*                                                                         *)
(* The module holds one state machine per component, each with its own     *)
(* specification over the module's variables:                              *)
(*   SpecParser  - RESPParser (incremental RESP parser)                    *)
(* A component's specification leaves the variables of the other           *)
(* components at their parked values.                                      *)
(***************************************************************************)
EXTENDS Integers, Sequences, FiniteSets, TLC

(***************************************************************************)
(* Shared helpers                                                          *)
(***************************************************************************)
None == "none"

SeqConcat(ss) ==
  LET F[i \in 0..Len(ss)] == IF i = 0 THEN <<>> ELSE F[i-1] \o ss[i]
  IN F[Len(ss)]

Take(s, n) == SubSeq(s, 1, n)
Drop(s, n) == SubSeq(s, n + 1, Len(s))

VARIABLES
  \* ---- RESPParser::ParseContext, and the harness that feeds it ----
  buffer,            \* context_.buffer: bytes appended and not yet erased
  position,          \* context_.position: cursor into buffer (0-based)
  completed_values,  \* context_.completed_values: parsed arrays not yet returned
  p_input,           \* bytes of the stream not yet handed to parse()
  p_chunks,          \* number of parse() calls made so far
  p_expected,        \* the command sequence C whose serialization is the stream
  p_emitted,         \* concatenation of the command lists returned so far
  p_threw,           \* TRUE once a parse() call left by an exception
  \* ---- AdaptiveCache ----
  items,             \* shard index -> Shard::items, front of the list first
  item_map,          \* shard index -> key set of Shard::item_map
  shard_mutex,       \* shard index -> state of Shard::mutex
  policy_mutex_,     \* owner of policy_mutex_, or None
  policy_type,       \* policy_->type()
  size_, capacity_, min_capacity_, max_capacity_,
  hits_, misses_, evictions_, expirations_,
  now,               \* std::chrono::steady_clock::now(), in milliseconds
  \* ---- DataStore ----
  submap_store,      \* key -> value held by the key's sub-map, or Absent
  submap_mutex,      \* sub-map id -> state of SubMap::mutex
  \* ---- calling threads ----
  pc,                \* thread -> position in the operation it runs
  frame,             \* thread -> arguments and locals of that operation
  res,               \* the operation that ended last, and its outcome
  n_ops,             \* number of operations started so far
  \* ---- observers ----
  get_returns,       \* number of AdaptiveCache::get calls that have returned
  settled,           \* key -> value of the last SET that completed with no
                     \*        write on the key overlapping or following it
  logging,           \* whether ended operations are appended to log
  log,               \* ended operations, in order, with their outcomes
  \* ---- CommandHandler ----
  cmd_stats_,        \* command name -> CommandStats, for the names that have one
  \* ---- RedisServer: one client connection and the tasks that serve it ----
  net_in,            \* bytes the client has written that have not arrived yet
  sock_in,           \* bytes in the socket's receive queue
  sock_full,         \* the socket's send queue is full: send gives EAGAIN
  epollin_ready,     \* an EPOLLIN event of the fd waits for epoll_wait
  epollout_ready,    \* an EPOLLOUT event of the fd waits for epoll_wait
  epollout_armed,    \* the fd is registered with EPOLLOUT
  conn_parser,       \* ParseContext of the parser get_parser(fd) returns
  read_buffer,       \* client->read_buffer[0 .. read_pos)
  write_buffer,      \* client->write_buffer, every byte ever stored in it
  write_pos,         \* client->write_pos
  read_queue,        \* handle_read tasks queued in readThreadPool
  read_task,         \* read thread -> "idle" or "recv"
  cmd_queue,         \* command batches queued in commandThreadPool, oldest first
  cmd_task,          \* command thread -> the batch it holds, or <<>>
  write_queue,       \* handle_write_ready tasks queued in writeThreadPool
  write_task,        \* write thread -> [pc, write_pos, n] of handle_write_ready
  sent,              \* bytes send() has accepted, in order
  parsed,            \* commands in the order the parser returned them
  appended,          \* reply bytes in the order they were stored in write_buffer
  \* ---- WorkerThread: one client of a worker ----
  wk_pending,        \* commands parsed by process_client_data, not yet handled
  wk_sock_room,      \* bytes the socket's send queue can still take
  wk_sent,           \* bytes send() has accepted, in order
  wk_produced,       \* reply bytes handle() has produced, in order
  wk_write_buffer,   \* ClientInfo::write_buffer[0 .. write_pos)
  \* ---- the worker pool: assign_client and the workers' client tables ----
  workers_,          \* worker index -> [clients_, client_count_] of the worker
  client_to_worker_, \* fd -> worker index, or NoWorker for an fd with no entry
  assign,            \* locals of the assign_client call that is running
  \* ---- RedisServer: connections coming and going ----
  backlog,           \* connections waiting in the listen queue
  fd_open,           \* fd -> the fd number is open in the process
  sock,              \* fd -> what recv finds: "new", "data", "idle" or "eof"
  events,            \* fd -> an EPOLLIN event of the fd waits for a read task
  heap,              \* [clients, contexts, pool]: clients_, the ClientContext
                     \* objects, and the available_contexts of client_pool_
  parsers_,          \* fd -> <<ParseContext>> of the fd's entry, <<>> for none
  total_connections_,
  rd,                \* read task -> locals of the handle_read call it runs
  \* ---- BufferManager ----
  pools,             \* size class -> BufferPool::buffers, back of the vector last
  buffers,           \* buffer -> [live, size, capacity] of the std::vector<char>
  held,              \* thread -> [pc, buffer, size] of its acquire or release
  next_buffer,       \* the next buffer new will make
  n_buffer_ops,      \* number of acquire and return_buffers calls started
  \* ---- DataStore: the sub-maps of every shard and the shard files ----
  options_shard_count, \* Options::shard_count of the running DataStore
  sub_maps,          \* entries <<shard, bucket, sub-map, key, stored value>>
  shard_files,       \* shard index -> records <<key, value>> of shard_<i>.dat
  kv_cache,          \* key -> value cache_ holds for it, or Absent
  kv_result,         \* what the last operation returned
  n_kv_ops,          \* number of operations and restarts so far
  \* ---- RedisServer: the command tasks of connections that come and go ----
  reply_clients,     \* fd -> the connection clients_ holds for the fd, 0 for none
  connections,       \* number of connections accepted so far
  reply_queue,       \* tasks of commandThreadPool not yet started, oldest first
  reply_task,        \* command thread -> the task it runs, or NoReplyTask
  reply_written,     \* connection -> the connections whose replies were copied
                     \* to its write buffer
  \* ---- ThreadPool and its WorkerThreads: start, stop and the clients ----
  pool_workers,      \* worker -> [running_, joinable, clients_, client_count_]
  pool_mapping,      \* ThreadPool::client_to_worker_: fd -> worker, or NoWorker
  pool_open,         \* the client fds that are open in the process
  pool_closes,       \* fd -> close(fd) calls since the fd was last accepted
  pool_last,         \* the last call made on the pool
  \* ---- RedisServer::run and the event loop ----
  run_pc,            \* where run() is: "start", "wait" (in epoll_wait),
                     \* "dispatch", "stats" or "returned"
  stop_requested,    \* stop() has been called
  listen_ready,      \* a connection waits on the listening socket, not yet reported
  client_ready,      \* the client fds with a readable event not yet reported
  run_batch,         \* [server, clients]: the events epoll_wait returned
  accept_in_progress,\* slot -> an accept task of the slot is queued or running
  run_reads,         \* handle_read tasks queued or running on readThreadPool
  stats_due,         \* 30 seconds have passed since the last statistics
  \* ---- one ClientContext, its buffers filled by the handlers ----
  bctx,              \* the ClientContext of the connection
  b_queue,           \* total_size of the process_commands tasks not yet started
  b_task,            \* command thread -> [pc, total_size] of its process_commands
  b_write,           \* [pc, write_pos]: the handle_write_ready call
  b_overrun,         \* a std::copy has written past the end of a buffer
  b_crashed,         \* the process was ended by such a copy
  b_last,            \* [op, n, read_pos]: the last handler step, the bytes it
                     \* had, and read_pos before it
  b_recvs,           \* [none, whole]: number of recv calls that brought no
                     \* command, and that brought whole commands
  \* ---- DataStore: the batch operations ----
  kv_call,           \* [n, op, args, locks]: the last batch call, its number among
                     \* the calls, and the sub-maps it locked, in order
  \* ---- DoubleBufferThreadPool ----
  buffers_,          \* index -> buffers_[index].tasks, the task at the front first
  write_buffer_,     \* index of the buffer enqueue pushes to
  read_buffer_,      \* index of the buffer the workers take from
  stop_,             \* stop_
  switch_mutex_,     \* owner of switch_mutex_, or NoOwner
  last_submit_time,  \* the static of need_switch_buffers, relative to the clock
  total_tasks,       \* metrics_.total_tasks: tasks accepted so far
  ran,               \* task -> number of times it has been run
  th                 \* thread -> where it is in enqueue or worker_thread, and
                     \* the locals of its call of need_switch_buffers

varsParser == <<buffer, position, completed_values, p_input, p_chunks,
                p_expected, p_emitted, p_threw>>

\* the cache's contents, locks and counters
varsCache == <<items, item_map, shard_mutex, policy_mutex_, size_, capacity_,
               hits_, misses_, evictions_, expirations_>>
\* what no cache or store step changes: the configuration and the clock
varsConfig == <<policy_type, min_capacity_, max_capacity_, logging, now>>
\* control state of the threads and what the observers record when a call ends
varsControl == <<pc, frame, res, submap_mutex, get_returns, settled, log, cmd_stats_>>
varsData == <<varsCache, varsConfig, varsControl, submap_store, n_ops>>

varsConn == <<net_in, sock_in, sock_full, epollin_ready, epollout_ready,
              epollout_armed, conn_parser, read_buffer, write_buffer, write_pos,
              read_queue, read_task, cmd_queue, cmd_task, write_queue, write_task,
              sent, parsed, appended>>
varsWorker == <<wk_pending, wk_sock_room, wk_sent, wk_produced, wk_write_buffer>>

varsAssign == <<workers_, client_to_worker_, assign>>
\* the components added to the model after the first four
varsAccept == <<backlog, fd_open, sock, events, heap, parsers_, total_connections_, rd>>
varsBuffers == <<pools, buffers, held, next_buffer, n_buffer_ops>>
varsRouting == <<options_shard_count, sub_maps, shard_files, kv_cache, kv_result,
                 n_kv_ops>>
varsReply == <<reply_clients, connections, reply_queue, reply_task, reply_written>>
varsStop == <<pool_workers, pool_mapping, pool_open, pool_closes, pool_last>>
varsRun == <<run_pc, stop_requested, listen_ready, client_ready, run_batch,
             accept_in_progress, run_reads, stats_due>>
varsBounds == <<bctx, b_queue, b_task, b_write, b_overrun, b_crashed, b_last, b_recvs>>
varsBatch == <<kv_call>>
varsLast == <<varsBounds, varsBatch, buffers_, write_buffer_, read_buffer_, stop_,
              switch_mutex_, last_submit_time, total_tasks, ran, th>>
varsLater == <<varsReply, varsStop, varsRun, varsLast>>
varsMore == <<varsAssign, varsAccept, varsBuffers, varsRouting, varsLater>>
varsEarlier == <<varsParser, varsData, varsConn, varsWorker, varsAssign, varsAccept,
                 varsBuffers, varsRouting>>
varsEarlierThanRouting == <<varsParser, varsData, varsConn, varsWorker, varsAssign,
                            varsAccept, varsBuffers>>

vars == <<varsParser, varsData, varsConn, varsWorker, varsMore>>

(***************************************************************************)
(* RESPParser (src/src/RESPParser.cpp).  Bytes are one-character strings;  *)
(* positions are 0-based as in the source, At(data, i) is data[i].         *)
(***************************************************************************)
CR == "\r"
LF == "\n"
npos == -1

At(data, i) == data[i + 1]
\* std::string_view::substr(pos, n) for pos <= size
Substr(data, pos, n) ==
  SubSeq(data, pos + 1, IF pos + n > Len(data) THEN Len(data) ELSE pos + n)

DigitChars == <<"0", "1", "2", "3", "4", "5", "6", "7", "8", "9">>
IsDigit(c) == \E i \in 1..10 : DigitChars[i] = c
DigitVal(c) == (CHOOSE i \in 1..10 : DigitChars[i] = c) - 1
IsSpace(c) == c \in {" ", "\t", "\n", "\r", "\f"}

RECURSIVE SkipSpace(_, _)
SkipSpace(s, i) ==
  IF i <= Len(s) /\ IsSpace(s[i]) THEN SkipSpace(s, i + 1) ELSE i

RECURSIVE StoiDigits(_, _, _)
StoiDigits(s, i, acc) ==
  IF i > Len(s) \/ ~IsDigit(s[i]) THEN acc
  ELSE StoiDigits(s, i + 1, acc * 10 + DigitVal(s[i]))

\* std::stoi: leading white space, an optional sign, then decimal digits;
\* std::invalid_argument (ok = FALSE) when no digit follows.
stoi(s) ==
  LET i == SkipSpace(s, 1)
      signed == i <= Len(s) /\ s[i] \in {"-", "+"}
      j == IF signed THEN i + 1 ELSE i
      mag == StoiDigits(s, j, 0)
  IN IF j > Len(s) \/ ~IsDigit(s[j]) THEN [ok |-> FALSE, val |-> 0]
     ELSE [ok |-> TRUE, val |-> IF signed /\ s[i] = "-" THEN 0 - mag ELSE mag]

\* for (i = start; i < size - 1; ++i) if (data[i] == '\r' && data[i+1] == '\n') return i;
find_crlf(data, start) ==
  LET hits == {i \in start..(Len(data) - 2) : At(data, i) = CR /\ At(data, i + 1) = LF}
  IN IF hits = {} THEN npos ELSE CHOOSE i \in hits : \A j \in hits : i <= j

\* Result of a parse step: some = a value was produced, pos = the cursor the
\* step leaves in context_.position, threw = std::stoi raised.
NoValue(pos) == [some |-> FALSE, val |-> None, pos |-> pos, threw |-> FALSE]
Thrown(pos) == [some |-> FALSE, val |-> None, pos |-> pos, threw |-> TRUE]
Value(v, pos) == [some |-> TRUE, val |-> v, pos |-> pos, threw |-> FALSE]
Scalar(type, bytes) == [type |-> type, value |-> bytes, array |-> <<>>]

\* parse_simple_string, parse_error, parse_integer: the tag is skipped before
\* the line is known to be complete.
parse_line(type, data, pos0) ==
  LET pos == pos0 + 1
      crlf == find_crlf(data, pos)
  IN IF crlf = npos THEN NoValue(pos)
     ELSE Value(Scalar(type, Substr(data, pos, crlf - pos)), crlf + 2)

parse_bulk_string(data, pos0) ==
  LET pos == pos0 + 1
      crlf == find_crlf(data, pos)
  IN IF crlf = npos THEN NoValue(pos)
     ELSE LET len == stoi(Substr(data, pos, crlf - pos))
              body == crlf + 2
          IN IF ~len.ok THEN Thrown(pos)
             ELSE IF len.val < 0 THEN Value(Scalar("BulkString", <<>>), body)
             ELSE IF body + len.val + 2 > Len(data) THEN NoValue(body)
             ELSE Value(Scalar("BulkString", Substr(data, body, len.val)),
                        body + len.val + 2)

RECURSIVE try_parse_next(_, _)
RECURSIVE parse_elements(_, _, _, _)

\* the element loop of parse_array; element is bound to the one result of
\* try_parse_next
parse_elements(data, pos, remaining, acc) ==
  IF remaining <= 0 THEN Value([type |-> "Array", value |-> <<>>, array |-> acc], pos)
  ELSE CHOOSE out \in
         {IF element.threw THEN element
          ELSE IF ~element.some THEN NoValue(element.pos)
          ELSE parse_elements(data, element.pos, remaining - 1,
                              Append(acc, element.val)) :
            element \in {try_parse_next(data, pos)}} : TRUE

parse_array(data, pos0) ==
  LET pos == pos0 + 1
      crlf == find_crlf(data, pos)
  IN IF crlf = npos THEN NoValue(pos)
     ELSE LET count == stoi(Substr(data, pos, crlf - pos))
          IN IF ~count.ok THEN Thrown(pos)
             ELSE parse_elements(data, crlf + 2, count.val, <<>>)

TypeTags == {"+", "-", ":", "$", "*"}

RECURSIVE skip_invalid(_, _)
skip_invalid(data, pos) ==
  IF pos < Len(data) /\ At(data, pos) \notin TypeTags
  THEN skip_invalid(data, pos + 1) ELSE pos

try_parse_next(data, pos) ==
  IF pos >= Len(data) THEN NoValue(pos)
  ELSE LET type == At(data, pos)
       IN CASE type = "+" -> parse_line("SimpleString", data, pos)
            [] type = "-" -> parse_line("Error", data, pos)
            [] type = ":" -> parse_line("Integer", data, pos)
            [] type = "$" -> parse_bulk_string(data, pos)
            [] type = "*" -> parse_array(data, pos)
            [] OTHER -> NoValue(skip_invalid(data, pos))

\* RESPValue::to_command: an array of bulk strings, else the empty command
to_command(v) ==
  IF v.type # "Array" THEN <<>>
  ELSE IF \E i \in 1..Len(v.array) : v.array[i].type # "BulkString" THEN <<>>
  ELSE [i \in 1..Len(v.array) |-> v.array[i].value]

\* get_commands: drains completed_values, keeping the non-empty commands
get_commands(values) ==
  LET cmds == [i \in 1..Len(values) |-> to_command(values[i])]
  IN SelectSeq(cmds, LAMBDA c : c # <<>>)

\* the while (true) loop of parse(): [pos, done, threw] after the loop;
\* add_completed_command keeps arrays only.
RECURSIVE parse_loop(_, _, _)
parse_loop(data, pos, done) ==
  CHOOSE out \in
    {IF r.threw THEN [pos |-> r.pos, done |-> done, threw |-> TRUE]
     ELSE IF ~r.some THEN [pos |-> r.pos, done |-> done, threw |-> FALSE]
     ELSE parse_loop(data, r.pos,
                     IF r.val.type = "Array" THEN Append(done, r.val) ELSE done) :
       r \in {try_parse_next(data, pos)}} : TRUE

\* RESPParser::parse as a function of the context and the chunk: the context
\* after the call, the returned commands, and whether the call threw.
parse(ctx, chunk) ==
  CHOOSE out \in
    {IF l.threw
     THEN [buffer |-> data, position |-> l.pos, completed_values |-> l.done,
           cmds |-> <<>>, threw |-> TRUE]
     ELSE [buffer |-> IF l.pos > 0 THEN Drop(data, l.pos) ELSE data,
           position |-> 0, completed_values |-> <<>>,
           cmds |-> get_commands(l.done), threw |-> FALSE] :
       data \in {ctx.buffer \o chunk},
       l \in {parse_loop(ctx.buffer \o chunk, ctx.position, ctx.completed_values)}} : TRUE

\* RESPParser::reset / a default-constructed parser
EmptyContext == [buffer |-> <<>>, position |-> 0, completed_values |-> <<>>]

(***************************************************************************)
(* The stream fed to the parser: serialize(C) for a sequence C of commands *)
(* (RESP arrays of bulk strings), cut into chunks.                         *)
(***************************************************************************)
MaxChunks == 3

Words == {<<"a">>, <<"b", "c">>}
Commands == {<<w>> : w \in Words} \cup {<<w1, w2>> : w1 \in Words, w2 \in Words}
CommandSeqs == {<<c>> : c \in Commands} \cup {<<c1, c2>> : c1 \in Commands, c2 \in Commands}

itoa(n) == IF n < 10 THEN <<DigitChars[n + 1]>>
           ELSE <<DigitChars[(n \div 10) + 1], DigitChars[(n % 10) + 1]>>

serialize_bulk(w) == <<"$">> \o itoa(Len(w)) \o <<CR, LF>> \o w \o <<CR, LF>>
serialize_command(c) ==
  <<"*">> \o itoa(Len(c)) \o <<CR, LF>> \o SeqConcat([i \in 1..Len(c) |-> serialize_bulk(c[i])])
serialize(C) == SeqConcat([i \in 1..Len(C) |-> serialize_command(C[i])])

\* one parse(chunk) call on the next n bytes of the stream; the last allowed
\* chunk takes all that is left
ParseChunk ==
  /\ p_input # <<>>
  /\ ~p_threw
  /\ \E n \in 1..Len(p_input) :
       /\ (p_chunks + 1 = MaxChunks) => n = Len(p_input)
       /\ LET r == parse([buffer |-> buffer, position |-> position,
                          completed_values |-> completed_values], Take(p_input, n))
          IN /\ buffer' = r.buffer
             /\ position' = r.position
             /\ completed_values' = r.completed_values
             /\ p_emitted' = p_emitted \o r.cmds
             /\ p_threw' = r.threw
       /\ p_input' = Drop(p_input, n)
  /\ p_chunks' = p_chunks + 1
  /\ UNCHANGED <<p_expected, varsData, varsConn, varsWorker, varsMore>>

(***************************************************************************)
(* AdaptiveCache (src/src/AdaptiveCache.cpp) with the policies of          *)
(* src/include/CachePolicy.h, and DataStore (src/src/DataStore.cpp) on top *)
(* of it.  A thread runs one operation at a time; a step of an operation   *)
(* runs from one lock acquisition to the next.                             *)
(***************************************************************************)
Threads == {"t1", "t2"}
Keys == {"a", "b", "c", "e", "g", "h"}
Values == {"1", "2", "3"}
Absent == "nullopt"
Threw == "threw"

\* XXH32(key, seed) for the keys of the model, reduced modulo 720720 (the
\* least common multiple of 1..16) so that XXH32 % n is exact for n <= 16
XXH32_seed0 == [a |-> 640230, b |-> 184063, c |-> 195291,
                e |-> 419847, g |-> 277975, h |-> 456731]
XXH32_seed42 == [a |-> 478626, b |-> 698639, c |-> 449143,
                 e |-> 674558, g |-> 443042, h |-> 141648]

shard_count_ == 2
ShardIds == 0..(shard_count_ - 1)
get_shard_index(key) == XXH32_seed0[key] % shard_count_

\* size_t arithmetic of the atomic counter size_: SIZE_MAX stands for 2^64 - 1
SIZE_MAX == 2147483647
fetch_add(n) == IF n = SIZE_MAX THEN 0 ELSE n + 1
fetch_sub(n) == IF n = 0 THEN SIZE_MAX ELSE n - 1
\* update_size_stats(-1) applied k times
RECURSIVE fetch_sub_n(_, _)
fetch_sub_n(n, k) == IF k = 0 THEN n ELSE fetch_sub_n(fetch_sub(n), k - 1)

Min(a, b) == IF a < b THEN a ELSE b
Max(a, b) == IF a > b THEN a ELSE b

\* std::shared_mutex
Unlocked == [writer |-> None, readers |-> {}]
CanLock(m) == m.writer = None /\ m.readers = {}
CanLockShared(m) == m.writer = None
LockedBy(t) == [writer |-> t, readers |-> {}]
LockShared(m, t) == [m EXCEPT !.readers = @ \cup {t}]
UnlockShared(m, t) == [m EXCEPT !.readers = @ \ {t}]

\* ---- CacheItem and the policies ----
\* CacheItem(key, value): CacheItemMetrics() stamps the construction time
\* (access_count is left out: none of the three policies below reads it)
CacheItem(key, value) == [key |-> key, value |-> value, last_access_time |-> now]
record_access(item) == [item EXCEPT !.last_access_time = now]

Policies == {"LRU", "TLRU", "FIFO"}
\* TLRUPolicy::ttl_, in seconds
ttl_ == 1800
on_access(item) == IF policy_type = "FIFO" THEN item ELSE record_access(item)
on_add(item) == IF policy_type = "FIFO" THEN item ELSE record_access(item)
\* duration_cast<seconds>(now - last_access_time) > ttl_
should_evict(item) ==
  policy_type = "TLRU" /\ ((now - item.last_access_time) \div 1000) > ttl_
\* LRU, TLRU and FIFO: the time stamp in milliseconds
get_priority(item) == item.last_access_time
\* std::numeric_limits<double>::max(), above every time stamp
DBL_MAX == 2147483647

\* ---- a shard's list ----
Find(list, key) == CHOOSE i \in 1..Len(list) : list[i].key = key
ItemOf(s, key) == items[s][Find(items[s], key)]
Erase(list, key) == SelectSeq(list, LAMBDA it : it.key # key)
EraseAll(list, ks) == SelectSeq(list, LAMBDA it : it.key \notin ks)
\* list.splice(list.begin(), list, it)
SpliceFront(list, key) == <<list[Find(list, key)]>> \o Erase(list, key)
Replace(list, key, item) ==
  [i \in 1..Len(list) |-> IF list[i].key = key THEN item ELSE list[i]]
KeysOf(list) == {list[i].key : i \in 1..Len(list)}

\* calculate_items_to_evict; the ratios 0.9 and 0.7 are kept in tenths
cleanup_threshold_ == 9
cleanup_target_ == 7
OverThreshold == size_ > (capacity_ * cleanup_threshold_) \div 10
calculate_items_to_evict ==
  IF size_ > capacity_ THEN size_ - capacity_ + 1
  ELSE IF OverThreshold /\ size_ > (capacity_ * cleanup_target_) \div 10
       THEN size_ - (capacity_ * cleanup_target_) \div 10
  ELSE 1

\* evict_items: the candidates sorted by descending priority, expired items
\* first; the first min(count, size) of them go.  std::sort leaves the order
\* of equal priorities open, so every choice of that many items with no
\* item left behind of a higher priority is possible.
Priority(item) == IF should_evict(item) THEN DBL_MAX ELSE get_priority(item)
EvictChoices(list, count) ==
  LET n == Min(count, Len(list))
  IN {S \in SUBSET (1..Len(list)) :
        /\ Cardinality(S) = n
        /\ \A i \in S, j \in (1..Len(list)) \ S :
             Priority(list[i]) >= Priority(list[j])}

\* ---- sub-maps of the store ----
\* Bucket::get_submap_index and the counts of shards and buckets
SubMapCount == 8
store_shard_count_ == 2
bucket_per_shard_ == 2
hash(key) == XXH32_seed0[key]
get_bucket_index(key) == XXH32_seed42[key] % bucket_per_shard_
get_submap_index(key) == hash(key) % SubMapCount
SubMapOf(key) ==
  <<hash(key) % store_shard_count_, get_bucket_index(key), get_submap_index(key)>>
SubMapIds == {SubMapOf(k) : k \in Keys}

\* ---- threads ----
\* op: the operation the thread was asked to run; call: the AdaptiveCache
\* function it is in; caller: what that function returns to; path: the branch
\* a get has taken; expect, clean and alone: kept for the observers;
\* handler: the command name CommandHandler::handle dispatched on, if the
\* operation runs under it; rest: the arguments handle_mset / handle_mget have
\* still to work on; acc: the values handle_mget has collected
IdleFrame ==
  [op |-> None, call |-> None, caller |-> None, key |-> None, value |-> None,
   i |-> 0, items_to_evict |-> 0, per_shard |-> 0, path |-> None,
   expect |-> None, clean |-> FALSE, alone |-> FALSE,
   handler |-> <<>>, rest |-> <<>>, acc |-> <<>>]
\* res before any operation has ended
NoResult == [thread |-> None, op |-> None, key |-> None, value |-> None,
             path |-> None, expect |-> None, alone |-> FALSE, acc |-> <<>>]
IsWrite(f) == f.op \in {"SET", "DEL"}
Running(t) == pc[t] # "idle"

\* CommandHandler::update_command_stats
Durations == {1, 2}
NewStats == [calls |-> 0, total_time |-> 0, max_time |-> 0, min_time |-> SIZE_MAX]
update_command_stats(stats, cmd_name, execution_time) ==
  LET old == IF cmd_name \in DOMAIN stats THEN stats[cmd_name] ELSE NewStats
      new == [calls |-> old.calls + 1,
              total_time |-> old.total_time + execution_time,
              max_time |-> Max(old.max_time, execution_time),
              min_time |-> Min(old.min_time, execution_time)]
  IN [n \in DOMAIN stats \cup {cmd_name} |-> IF n = cmd_name THEN new ELSE stats[n]]

\* the DataStore call of thread t ends with outcome r.  Under handle_mset or
\* handle_mget with arguments left, the loop goes on; else the operation ends,
\* and a command handler that returned to handle has its time recorded.
Complete(t, r, mutexes) ==
  LET f == frame[t]
      more == f.rest # <<>> /\ r # Threw
      acc == IF f.op = "MGET" /\ r # Threw THEN Append(f.acc, r) ELSE f.acc
  IN
  /\ pc' = [pc EXCEPT ![t] = IF more THEN "next" ELSE "idle"]
  /\ res' = IF more THEN res
            ELSE [thread |-> t, op |-> f.op, key |-> f.key, value |-> r,
                  path |-> f.path, expect |-> f.expect, alone |-> f.alone,
                  acc |-> acc]
  /\ frame' = [frame EXCEPT ![t] =
                 IF more THEN [f EXCEPT !.call = None, !.caller = None, !.acc = acc]
                 ELSE IdleFrame]
  /\ \E d \in IF more \/ f.handler = <<>> \/ r = Threw THEN {0} ELSE Durations :
       cmd_stats_' = IF d = 0 THEN cmd_stats_
                     ELSE update_command_stats(cmd_stats_, f.handler, d)
  /\ submap_mutex' = mutexes
  /\ settled' = IF IsWrite(frame[t])
                THEN [settled EXCEPT ![frame[t].key] =
                        IF frame[t].clean /\ r # Threw
                        THEN (IF frame[t].op = "SET" THEN frame[t].value ELSE Absent)
                        ELSE None]
                ELSE settled
  /\ log' = IF logging /\ ~more
            THEN Append(log, [op |-> frame[t].op, key |-> frame[t].key,
                              value |-> frame[t].value, res |-> r])
            ELSE log

\* a step of thread t that stays inside its operation
Step(t, p, f) ==
  /\ pc' = [pc EXCEPT ![t] = p]
  /\ frame' = [frame EXCEPT ![t] = f]
  /\ UNCHANGED <<res, submap_mutex, get_returns, settled, log, cmd_stats_>>

\* the AdaptiveCache function thread t is in returns r to its caller
CacheReturn(t, r) ==
  LET f == frame[t] IN
  /\ get_returns' = IF f.call = "get" THEN get_returns + 1 ELSE get_returns
  /\ CASE f.caller = "DataStore::set" ->
            /\ pc' = [pc EXCEPT ![t] = "set_submap"]
            /\ frame' = [frame EXCEPT ![t].call = None]
            /\ UNCHANGED <<res, submap_mutex, settled, log, cmd_stats_>>
       [] f.caller = "DataStore::del" ->
            /\ pc' = [pc EXCEPT ![t] = "del_submap"]
            /\ frame' = [frame EXCEPT ![t].call = None]
            /\ UNCHANGED <<res, submap_mutex, settled, log, cmd_stats_>>
       [] f.caller = "DataStore::get" /\ r = Absent ->
            /\ pc' = [pc EXCEPT ![t] = "get_submap"]
            /\ frame' = [frame EXCEPT ![t].call = None]
            /\ UNCHANGED <<res, submap_mutex, settled, log, cmd_stats_>>
       [] f.caller = "DataStore::get" /\ r # Absent ->
            Complete(t, r, submap_mutex)
       \* cache_.put under the sub-map's shared lock: return value releases it
       [] f.caller = "DataStore::get/install" ->
            Complete(t, f.value,
                     [submap_mutex EXCEPT ![SubMapOf(f.key)] = UnlockShared(@, t)])
       [] OTHER -> Complete(t, r, submap_mutex)

\* the AdaptiveCache function thread t is in leaves by an exception: nothing
\* up the stack catches it, and the guards on the way release their locks
CacheThrow(t) ==
  /\ UNCHANGED get_returns
  /\ Complete(t, Threw,
              IF frame[t].caller = "DataStore::get/install"
              THEN [submap_mutex EXCEPT ![SubMapOf(frame[t].key)] = UnlockShared(@, t)]
              ELSE submap_mutex)

\* thread t blocks for ever on a mutex it owns
Deadlock(t) == Step(t, "deadlocked", frame[t])

\* a thread starts an operation
Begin(t, p, f) ==
  /\ pc[t] = "idle"
  /\ pc' = [pc EXCEPT ![t] = p]
  /\ frame' = [frame EXCEPT ![t] = f]
  /\ n_ops' = n_ops + 1
  /\ UNCHANGED <<res, submap_mutex, get_returns, log, cmd_stats_>>

\* variables of the other components
varsElsewhere == <<varsParser, varsConn, varsWorker, varsMore>>
\* what a step inside AdaptiveCache leaves alone
varsOutsideCache == <<varsConfig, submap_store, n_ops, varsElsewhere>>

\* ---- AdaptiveCache::put ----
\* lock the shard; an existing key gets the new value; a new key is linked
\* in unless the cache is full
PutLock(t) ==
  LET f == frame[t]
      s == get_shard_index(f.key)
  IN /\ pc[t] = "put"
     /\ CanLock(shard_mutex[s])
     /\ shard_mutex' = [shard_mutex EXCEPT ![s] = LockedBy(t)]
     /\ IF f.key \in item_map[s]
        THEN /\ items' = [items EXCEPT ![s] =
                            Replace(@, f.key, [ItemOf(s, f.key) EXCEPT !.value = f.value])]
             /\ UNCHANGED item_map
             /\ Step(t, "put_update", f)
        ELSE IF size_ >= capacity_
        THEN /\ UNCHANGED <<items, item_map>>
             /\ Step(t, "put_evict", [f EXCEPT !.items_to_evict = calculate_items_to_evict])
        ELSE /\ items' = [items EXCEPT ![s] = <<CacheItem(f.key, f.value)>> \o @]
             /\ item_map' = [item_map EXCEPT ![s] = @ \cup {f.key}]
             /\ Step(t, "put_add", f)
     /\ UNCHANGED <<policy_mutex_, size_, capacity_, hits_, misses_, evictions_,
                    expirations_, varsOutsideCache>>

\* the existing-key path: on_access under policy_mutex_, LRU moves the item
\* to the front, return
PutUpdate(t) ==
  LET f == frame[t]
      s == get_shard_index(f.key)
      touched == Replace(items[s], f.key, on_access(ItemOf(s, f.key)))
  IN /\ pc[t] = "put_update"
     /\ policy_mutex_ = None
     /\ items' = [items EXCEPT ![s] =
                    IF policy_type = "LRU" THEN SpliceFront(touched, f.key) ELSE touched]
     /\ shard_mutex' = [shard_mutex EXCEPT ![s] = Unlocked]
     /\ CacheReturn(t, "OK")
     /\ UNCHANGED <<item_map, policy_mutex_, size_, capacity_, hits_, misses_,
                    evictions_, expirations_, varsOutsideCache>>

\* the full-cache path: evict_items(shard, n) locks shard.mutex, which put
\* already holds.  Locking a std::shared_mutex the thread owns is undefined:
\* the lock call blocks for ever, or it reports the deadlock by throwing
\* std::system_error, which unwinds put.
PutEvict(t) ==
  LET f == frame[t]
      s == get_shard_index(f.key)
  IN /\ pc[t] = "put_evict"
     /\ f.items_to_evict # 0
     /\ \/ /\ Deadlock(t)
           /\ UNCHANGED shard_mutex
        \/ /\ shard_mutex' = [shard_mutex EXCEPT ![s] = Unlocked]
           /\ CacheThrow(t)
     /\ UNCHANGED <<items, item_map, policy_mutex_, size_, capacity_, hits_, misses_,
                    evictions_, expirations_, varsOutsideCache>>

\* the new-key path: on_add under policy_mutex_, size_ + 1, unlock
PutAdd(t) ==
  LET f == frame[t]
      s == get_shard_index(f.key)
  IN /\ pc[t] = "put_add"
     /\ policy_mutex_ = None
     /\ items' = [items EXCEPT ![s] = Replace(@, f.key, on_add(ItemOf(s, f.key)))]
     /\ size_' = fetch_add(size_)
     /\ shard_mutex' = [shard_mutex EXCEPT ![s] = Unlocked]
     /\ Step(t, "put_cleanup", f)
     /\ UNCHANGED <<item_map, policy_mutex_, capacity_, hits_, misses_,
                    evictions_, expirations_, varsOutsideCache>>

\* after the lock is gone: cleanup_expired(shard) when the cache is over the
\* cleanup threshold
PutCleanupCheck(t) ==
  /\ pc[t] = "put_cleanup"
  /\ IF OverThreshold THEN Step(t, "cleanup_lock", frame[t])
     ELSE CacheReturn(t, "OK")
  /\ UNCHANGED <<varsCache, varsOutsideCache>>

\* ---- AdaptiveCache::cleanup_expired ----
CleanupLock(t) ==
  LET s == get_shard_index(frame[t].key)
  IN /\ pc[t] = "cleanup_lock"
     /\ CanLock(shard_mutex[s])
     /\ shard_mutex' = [shard_mutex EXCEPT ![s] = LockedBy(t)]
     /\ Step(t, "cleanup_scan", frame[t])
     /\ UNCHANGED <<items, item_map, policy_mutex_, size_, capacity_, hits_, misses_,
                    evictions_, expirations_, varsOutsideCache>>

\* collect the expired keys under policy_mutex_, erase them, unlock
CleanupScan(t) ==
  LET s == get_shard_index(frame[t].key)
      expired_keys == {items[s][i].key : i \in {j \in 1..Len(items[s]) : should_evict(items[s][j])}}
      found == expired_keys \cap item_map[s]
  IN /\ pc[t] = "cleanup_scan"
     /\ policy_mutex_ = None
     /\ items' = [items EXCEPT ![s] = EraseAll(@, found)]
     /\ item_map' = [item_map EXCEPT ![s] = @ \ found]
     /\ size_' = fetch_sub_n(size_, Cardinality(found))
     /\ expirations_' = expirations_ + Cardinality(found)
     /\ shard_mutex' = [shard_mutex EXCEPT ![s] = Unlocked]
     /\ CacheReturn(t, "OK")
     /\ UNCHANGED <<policy_mutex_, capacity_, hits_, misses_, evictions_,
                    varsOutsideCache>>

\* ---- AdaptiveCache::get ----
\* shared lock and look-up; a missing key is a miss
GetLock(t) ==
  LET f == frame[t]
      s == get_shard_index(f.key)
  IN /\ pc[t] = "get"
     /\ CanLockShared(shard_mutex[s])
     /\ IF f.key \notin item_map[s]
        THEN /\ misses_' = misses_ + 1
             /\ UNCHANGED shard_mutex
             /\ CacheReturn(t, Absent)
        ELSE /\ shard_mutex' = [shard_mutex EXCEPT ![s] = LockShared(@, t)]
             /\ UNCHANGED misses_
             /\ Step(t, "get_policy", f)
     /\ UNCHANGED <<items, item_map, policy_mutex_, size_, capacity_, hits_,
                    evictions_, expirations_, varsOutsideCache>>

\* under policy_mutex_: an expired item drops the shared lock and goes on to
\* remove(key) with policy_mutex_ held; otherwise on_access, and either the
\* LRU promotion or the hit
GetPolicy(t) ==
  LET f == frame[t]
      s == get_shard_index(f.key)
      item == ItemOf(s, f.key)
  IN /\ pc[t] = "get_policy"
     /\ policy_mutex_ = None
     /\ shard_mutex' = [shard_mutex EXCEPT ![s] = UnlockShared(@, t)]
     /\ IF should_evict(item)
        THEN /\ policy_mutex_' = t
             /\ UNCHANGED <<items, hits_>>
             /\ Step(t, "get_expired", [f EXCEPT !.path = "expired"])
        ELSE /\ UNCHANGED policy_mutex_
             /\ items' = [items EXCEPT ![s] = Replace(@, f.key, on_access(item))]
             /\ IF policy_type = "LRU"
                THEN /\ UNCHANGED hits_
                     /\ Step(t, "get_promote", [f EXCEPT !.path = "promote"])
                ELSE /\ hits_' = hits_ + 1
                     /\ CacheReturn(t, item.value)
     /\ UNCHANGED <<item_map, size_, capacity_, misses_, evictions_, expirations_,
                    varsOutsideCache>>

\* remove(key) called by the expired path, policy_mutex_ still held: it locks
\* the shard; a key that is gone by now makes it return false, and get counts
\* an expiration and a miss
GetExpiredRemove(t) ==
  LET f == frame[t]
      s == get_shard_index(f.key)
  IN /\ pc[t] = "get_expired"
     /\ CanLock(shard_mutex[s])
     /\ IF f.key \notin item_map[s]
        THEN /\ expirations_' = expirations_ + 1
             /\ misses_' = misses_ + 1
             /\ policy_mutex_' = None
             /\ UNCHANGED shard_mutex
             /\ CacheReturn(t, Absent)
        ELSE /\ shard_mutex' = [shard_mutex EXCEPT ![s] = LockedBy(t)]
             /\ UNCHANGED <<expirations_, misses_, policy_mutex_>>
             /\ Step(t, "get_expired_relock", f)
     /\ UNCHANGED <<items, item_map, size_, capacity_, hits_, evictions_,
                    varsOutsideCache>>

\* remove found the key and locks policy_mutex_, which its caller get holds.
\* Locking a std::mutex the thread owns is undefined: the call blocks for
\* ever, or it throws std::system_error, which unwinds remove and get.
GetExpiredRelock(t) ==
  LET s == get_shard_index(frame[t].key)
  IN /\ pc[t] = "get_expired_relock"
     /\ \/ /\ Deadlock(t)
           /\ UNCHANGED <<shard_mutex, policy_mutex_>>
        \/ /\ shard_mutex' = [shard_mutex EXCEPT ![s] = Unlocked]
           /\ policy_mutex_' = None
           /\ CacheThrow(t)
     /\ UNCHANGED <<items, item_map, size_, capacity_, hits_, misses_, evictions_,
                    expirations_, varsOutsideCache>>

\* GetPromote with the miss of the second look-up left uncounted
GetPromoteUncounted(t) ==
  LET f == frame[t]
      s == get_shard_index(f.key)
  IN /\ pc[t] = "get_promote"
     /\ CanLock(shard_mutex[s])
     /\ IF f.key \in item_map[s]
        THEN /\ items' = [items EXCEPT ![s] = SpliceFront(@, f.key)]
             /\ hits_' = hits_ + 1
             /\ CacheReturn(t, ItemOf(s, f.key).value)
        ELSE /\ UNCHANGED <<items, hits_>>
             /\ CacheReturn(t, Absent)
     /\ UNCHANGED <<item_map, shard_mutex, policy_mutex_, size_, capacity_, misses_,
                    evictions_, expirations_, varsOutsideCache>>

\* the LRU promotion: exclusive lock, look the key up again
GetPromote(t) ==
  LET f == frame[t]
      s == get_shard_index(f.key)
  IN /\ pc[t] = "get_promote"
     /\ CanLock(shard_mutex[s])
     /\ IF f.key \in item_map[s]
        THEN /\ items' = [items EXCEPT ![s] = SpliceFront(@, f.key)]
             /\ hits_' = hits_ + 1
             /\ UNCHANGED misses_
             /\ CacheReturn(t, ItemOf(s, f.key).value)
        ELSE /\ misses_' = misses_ + 1
             /\ UNCHANGED <<items, hits_>>
             /\ CacheReturn(t, Absent)
     /\ UNCHANGED <<item_map, shard_mutex, policy_mutex_, size_, capacity_,
                    evictions_, expirations_, varsOutsideCache>>

\* ---- AdaptiveCache::remove ----
RemoveLock(t) ==
  LET f == frame[t]
      s == get_shard_index(f.key)
  IN /\ pc[t] = "remove"
     /\ CanLock(shard_mutex[s])
     /\ IF f.key \notin item_map[s]
        THEN /\ UNCHANGED shard_mutex
             /\ CacheReturn(t, "false")
        ELSE /\ shard_mutex' = [shard_mutex EXCEPT ![s] = LockedBy(t)]
             /\ Step(t, "remove_policy", f)
     /\ UNCHANGED <<items, item_map, policy_mutex_, size_, capacity_, hits_, misses_,
                    evictions_, expirations_, varsOutsideCache>>

\* remove that unlinks the item from the list and leaves its key in the map
RemovePolicyKeepsMapKey(t) ==
  LET f == frame[t]
      s == get_shard_index(f.key)
  IN /\ pc[t] = "remove_policy"
     /\ policy_mutex_ = None
     /\ items' = [items EXCEPT ![s] = Erase(@, f.key)]
     /\ size_' = fetch_sub(size_)
     /\ shard_mutex' = [shard_mutex EXCEPT ![s] = Unlocked]
     /\ CacheReturn(t, "true")
     /\ UNCHANGED <<item_map, policy_mutex_, capacity_, hits_, misses_, evictions_,
                    expirations_, varsOutsideCache>>

\* on_eviction under policy_mutex_, unlink, size_ - 1, unlock
RemovePolicy(t) ==
  LET f == frame[t]
      s == get_shard_index(f.key)
  IN /\ pc[t] = "remove_policy"
     /\ policy_mutex_ = None
     /\ items' = [items EXCEPT ![s] = Erase(@, f.key)]
     /\ item_map' = [item_map EXCEPT ![s] = @ \ {f.key}]
     /\ size_' = fetch_sub(size_)
     /\ shard_mutex' = [shard_mutex EXCEPT ![s] = Unlocked]
     /\ CacheReturn(t, "true")
     /\ UNCHANGED <<policy_mutex_, capacity_, hits_, misses_, evictions_,
                    expirations_, varsOutsideCache>>

\* ---- AdaptiveCache::set_capacity ----
\* clamp, exchange capacity_, and on a shrink below size() set out to evict
\* size() - new_capacity items, per_shard of them from each shard in turn
SetCapacity(t) ==
  LET f == frame[t]
      new_capacity == Max(min_capacity_, Min(max_capacity_, f.value))
      old_capacity == capacity_
      items_to_evict == size_ - new_capacity
  IN /\ pc[t] = "set_capacity"
     /\ capacity_' = new_capacity
     /\ IF new_capacity < old_capacity /\ size_ > new_capacity
        THEN Step(t, "evict_lock",
                  [f EXCEPT !.i = 0, !.items_to_evict = items_to_evict,
                            !.per_shard = items_to_evict \div shard_count_ + 1])
        ELSE CacheReturn(t, "OK")
     /\ UNCHANGED <<items, item_map, shard_mutex, policy_mutex_, size_, hits_,
                    misses_, evictions_, expirations_, varsOutsideCache>>

\* ---- AdaptiveCache::evict_items, called by the loop of set_capacity ----
to_evict(f) == Min(f.per_shard, f.items_to_evict)

EvictLock(t) ==
  LET f == frame[t]
  IN /\ pc[t] = "evict_lock"
     /\ to_evict(f) # 0
     /\ CanLock(shard_mutex[f.i])
     /\ shard_mutex' = [shard_mutex EXCEPT ![f.i] = LockedBy(t)]
     /\ Step(t, "evict_scan", f)
     /\ UNCHANGED <<items, item_map, policy_mutex_, size_, capacity_, hits_, misses_,
                    evictions_, expirations_, varsOutsideCache>>

\* rank the shard's items under policy_mutex_, evict the first to_evict of
\* them, unlock; the loop then charges to_evict to items_to_evict whatever
\* the shard gave up, and goes to the next shard or returns
EvictScan(t) ==
  LET f == frame[t]
      s == f.i
      left == f.items_to_evict - Min(to_evict(f), f.items_to_evict)
  IN /\ pc[t] = "evict_scan"
     /\ policy_mutex_ = None
     /\ \E S \in EvictChoices(items[s], to_evict(f)) :
          LET gone == {items[s][i].key : i \in S} \cap item_map[s]
          IN /\ items' = [items EXCEPT ![s] = EraseAll(@, gone)]
             /\ item_map' = [item_map EXCEPT ![s] = @ \ gone]
             /\ size_' = fetch_sub_n(size_, Cardinality(gone))
             /\ evictions_' = evictions_ + Cardinality(gone)
     /\ shard_mutex' = [shard_mutex EXCEPT ![s] = Unlocked]
     /\ IF f.i + 1 < shard_count_ /\ left > 0
        THEN Step(t, "evict_lock", [f EXCEPT !.i = f.i + 1, !.items_to_evict = left])
        ELSE CacheReturn(t, "OK")
     /\ UNCHANGED <<policy_mutex_, capacity_, hits_, misses_, expirations_,
                    varsOutsideCache>>

\* ---- AdaptiveCache::clear ----
\* one shard: lock it, drop its items, unlock
ClearShard(t) ==
  LET f == frame[t]
  IN /\ pc[t] = "clear"
     /\ CanLock(shard_mutex[f.i])
     /\ items' = [items EXCEPT ![f.i] = <<>>]
     /\ item_map' = [item_map EXCEPT ![f.i] = {}]
     /\ Step(t, IF f.i + 1 < shard_count_ THEN "clear" ELSE "clear_size",
             [f EXCEPT !.i = f.i + 1])
     /\ UNCHANGED <<shard_mutex, policy_mutex_, size_, capacity_, hits_, misses_,
                    evictions_, expirations_, varsOutsideCache>>

\* after the last shard: size_.store(0)
ClearSize(t) ==
  /\ pc[t] = "clear_size"
  /\ size_' = 0
  /\ CacheReturn(t, "OK")
  /\ UNCHANGED <<items, item_map, shard_mutex, policy_mutex_, capacity_, hits_,
                 misses_, evictions_, expirations_, varsOutsideCache>>

\* deallocate_item is given the address of an item the list has destroyed
\* (remove, get of an expired item, evict_items, cleanup_expired) and
\* destroys it again: the behaviour is undefined; the process goes on as the
\* other actions describe, or the allocator detects the second free of the
\* item's strings and aborts the process
DeallocateAborts(t) ==
  /\ pc[t] \in {"remove_policy", "get_expired_remove", "evict_scan", "cleanup_scan"}
  /\ pc' = [u \in Threads |-> "aborted"]
  /\ UNCHANGED <<varsCache, varsConfig, frame, res, submap_mutex, get_returns, settled,
                 log, cmd_stats_, submap_store, n_ops, varsElsewhere>>

\* ---- the clock ----
\* d milliseconds pass
MaxNow == 1801001
Tick(d) ==
  /\ now + d <= MaxNow
  /\ now' = now + d
  /\ UNCHANGED <<varsCache, policy_type, min_capacity_, max_capacity_, logging,
                 varsControl, submap_store, n_ops, varsElsewhere>>

\* ---- calls of the cache's interface ----
CacheCall(name, key, value) ==
  [IdleFrame EXCEPT !.op = name, !.call = name, !.caller = "caller",
                    !.key = key, !.value = value]
CallPut(t, key, value) ==
  /\ Begin(t, "put", CacheCall("put", key, value))
  /\ UNCHANGED <<varsCache, varsConfig, settled, submap_store, varsElsewhere>>
CallGet(t, key) ==
  /\ Begin(t, "get", CacheCall("get", key, None))
  /\ UNCHANGED <<varsCache, varsConfig, settled, submap_store, varsElsewhere>>
CallRemove(t, key) ==
  /\ Begin(t, "remove", CacheCall("remove", key, None))
  /\ UNCHANGED <<varsCache, varsConfig, settled, submap_store, varsElsewhere>>
CallSetCapacity(t, n) ==
  /\ Begin(t, "set_capacity", CacheCall("set_capacity", None, n))
  /\ UNCHANGED <<varsCache, varsConfig, settled, submap_store, varsElsewhere>>
CallClear(t) ==
  /\ Begin(t, "clear", CacheCall("clear", None, None))
  /\ UNCHANGED <<varsCache, varsConfig, settled, submap_store, varsElsewhere>>

\* ---- DataStore::set / get / del, reached through the SET / GET / DEL ----
\* ---- handlers of CommandHandler                                      ----
StoreCall(op, call, key, value) ==
  [IdleFrame EXCEPT !.op = op, !.call = call, !.key = key, !.value = value]

\* Observers, at the start of an operation on key: a write unsettles the key,
\* the writes and reads of the key it overlaps no longer count as clean, and
\* a read starts with the settled value as the value it should return.  An
\* operation is alone when no other operation on its key overlaps it.
BeginStore(t, p, f) ==
  /\ pc[t] = "idle"
  /\ pc' = [pc EXCEPT ![t] = p]
  /\ frame' = [u \in Threads |->
                 IF u = t
                 THEN [f EXCEPT !.expect = IF IsWrite(f) THEN None ELSE settled[f.key],
                                !.clean = \A w \in Threads \ {t} :
                                             ~(IsWrite(frame[w]) /\ frame[w].key = f.key),
                                !.alone = \A w \in Threads \ {t} : frame[w].key # f.key]
                 ELSE IF IsWrite(f) /\ frame[u].key = f.key
                 THEN [frame[u] EXCEPT !.expect = None, !.clean = FALSE, !.alone = FALSE]
                 ELSE IF frame[u].key = f.key
                 THEN [frame[u] EXCEPT !.alone = FALSE]
                 ELSE frame[u]]
  /\ settled' = IF IsWrite(f) THEN [settled EXCEPT ![f.key] = None] ELSE settled
  /\ n_ops' = n_ops + 1
  /\ UNCHANGED <<res, submap_mutex, get_returns, log, cmd_stats_>>

\* DataStore::set starts with cache_.put(key, value)
StoreSet(t, key, value) ==
  /\ BeginStore(t, "put", [StoreCall("SET", "put", key, value) EXCEPT !.caller = "DataStore::set"])
  /\ UNCHANGED <<varsCache, varsConfig, submap_store, varsElsewhere>>

\* then it writes the value to the key's sub-map under the exclusive lock
SetSubmap(t) ==
  LET f == frame[t]
  IN /\ pc[t] = "set_submap"
     /\ CanLock(submap_mutex[SubMapOf(f.key)])
     /\ submap_store' = [submap_store EXCEPT ![f.key] = f.value]
     /\ UNCHANGED get_returns
     /\ Complete(t, "OK", submap_mutex)
     /\ UNCHANGED <<varsCache, varsConfig, n_ops, varsElsewhere>>

\* DataStore::get starts with cache_.get(key); a cached value is returned
StoreGet(t, key) ==
  /\ BeginStore(t, "get", [StoreCall("GET", "get", key, None) EXCEPT !.caller = "DataStore::get"])
  /\ UNCHANGED <<varsCache, varsConfig, submap_store, varsElsewhere>>

\* on a cache miss it reads the sub-map under the shared lock; a value found
\* is installed with cache_.put while the lock is held
GetSubmap(t) ==
  LET f == frame[t]
      m == SubMapOf(f.key)
  IN /\ pc[t] = "get_submap"
     /\ CanLockShared(submap_mutex[m])
     /\ IF submap_store[f.key] = Absent
        THEN /\ UNCHANGED get_returns
             /\ Complete(t, Absent, submap_mutex)
        ELSE /\ pc' = [pc EXCEPT ![t] = "put"]
             /\ frame' = [frame EXCEPT ![t] =
                            [f EXCEPT !.call = "put", !.caller = "DataStore::get/install",
                                      !.value = submap_store[f.key]]]
             /\ submap_mutex' = [submap_mutex EXCEPT ![m] = LockShared(@, t)]
             /\ UNCHANGED <<res, get_returns, settled, log, cmd_stats_>>
     /\ UNCHANGED <<varsCache, varsConfig, submap_store, n_ops, varsElsewhere>>

\* DataStore::del starts with cache_.remove(key)
StoreDel(t, key) ==
  /\ BeginStore(t, "remove", [StoreCall("DEL", "remove", key, None) EXCEPT !.caller = "DataStore::del"])
  /\ UNCHANGED <<varsCache, varsConfig, submap_store, varsElsewhere>>

\* the last step of DataStore::del with the erase left out
DelSubmapKeep(t) ==
  LET f == frame[t]
  IN /\ pc[t] = "del_submap"
     /\ CanLock(submap_mutex[SubMapOf(f.key)])
     /\ UNCHANGED <<submap_store, get_returns>>
     /\ Complete(t, IF submap_store[f.key] = Absent THEN "false" ELSE "true", submap_mutex)
     /\ UNCHANGED <<varsCache, varsConfig, n_ops, varsElsewhere>>

\* then it erases the key from its sub-map under the exclusive lock
DelSubmap(t) ==
  LET f == frame[t]
  IN /\ pc[t] = "del_submap"
     /\ CanLock(submap_mutex[SubMapOf(f.key)])
     /\ submap_store' = [submap_store EXCEPT ![f.key] = Absent]
     /\ UNCHANGED get_returns
     /\ Complete(t, IF submap_store[f.key] = Absent THEN "false" ELSE "true", submap_mutex)
     /\ UNCHANGED <<varsCache, varsConfig, n_ops, varsElsewhere>>

\* ---- replies of CommandHandler ----
\* handle_del: ":" + std::to_string(success ? 1 : 0) + "\r\n"
handle_del(success) ==
  <<":">> \o (IF success = "true" THEN <<"1">> ELSE <<"0">>) \o <<CR, LF>>

\* handle_get: "$-1\r\n" for no value, else the value as a bulk string
handle_get(value) ==
  IF value = Absent THEN <<"$", "-", "1", CR, LF>> ELSE serialize_bulk(<<value>>)

(***************************************************************************)
(* CommandHandler (src/src/CommandHandler.cpp).  A command is a sequence   *)
(* whose first element, the name, is a sequence of characters; its other   *)
(* elements are keys and values.                                           *)
(***************************************************************************)
Upper == <<"A", "B", "C", "D", "E", "F", "G", "H", "I", "J", "K", "L", "M", "N", "O", "P", "Q", "R", "S", "T", "U", "V", "W", "X", "Y", "Z">>
Lower == <<"a", "b", "c", "d", "e", "f", "g", "h", "i", "j", "k", "l", "m", "n", "o", "p", "q", "r", "s", "t", "u", "v", "w", "x", "y", "z">>
\* std::tolower on each character of cmd[0]
tolower(name) ==
  [i \in 1..Len(name) |->
     IF \E j \in 1..Len(Upper) : Upper[j] = name[i]
     THEN Lower[CHOOSE j \in 1..Len(Upper) : Upper[j] = name[i]]
     ELSE name[i]]

\* the keys of cmd_handlers_ after init_handlers
name_set == <<"s", "e", "t">>
name_get == <<"g", "e", "t">>
name_del == <<"d", "e", "l">>
name_mset == <<"m", "s", "e", "t">>
name_mget == <<"m", "g", "e", "t">>
name_info == <<"i", "n", "f", "o">>
cmd_handlers_ == {name_set, name_get, name_del, name_mset, name_mget, name_info}

empty_command == <<"-", "E", "R", "R", " ", "e", "m", "p", "t", "y", " ", "c", "o", "m", "m", "a", "n", "d", CR, LF>>
unknown_command(cmd_name) ==
  <<"-", "E", "R", "R", " ", "u", "n", "k", "n", "o", "w", "n", " ", "c", "o", "m", "m", "a", "n", "d", " ", "'">> \o cmd_name \o <<"'", CR, LF>>
wrong_arguments(cmd_name) ==
  <<"-", "E", "R", "R", " ", "w", "r", "o", "n", "g", " ", "n", "u", "m", "b", "e", "r", " ", "o", "f", " ", "a", "r", "g", "u", "m", "e", "n", "t", "s", " ", "f", "o", "r", " ", "'">> \o cmd_name \o <<"'", " ", "c", "o", "m", "m", "a", "n", "d", CR, LF>>

\* operator<< of an unsigned integer
RECURSIVE to_string(_)
to_string(n) == IF n < 10 THEN <<DigitChars[n + 1]>>
                ELSE to_string(n \div 10) \o <<DigitChars[(n % 10) + 1]>>
\* std::fixed << std::setprecision(3) of total_time / calls
fixed3(total_time, calls) ==
  LET thousandths == (2 * 1000 * total_time + calls) \div (2 * calls)
      frac == thousandths % 1000
  IN to_string(thousandths \div 1000) \o <<".">> \o
     <<DigitChars[(frac \div 100) + 1], DigitChars[((frac \div 10) % 10) + 1],
       DigitChars[(frac % 10) + 1]>>

\* the lines handle_info writes for one entry of cmd_stats_
info_entry(cmd, stats) ==
  cmd \o <<"_", "c", "a", "l", "l", "s", ":">> \o to_string(stats.calls) \o <<CR, LF>> \o
  (IF stats.calls > 0
   THEN cmd \o <<"_", "a", "v", "g", "_", "t", "i", "m", "e", ":">> \o fixed3(stats.total_time, stats.calls) \o <<"u", "s", CR, LF>> \o
        cmd \o <<"_", "m", "i", "n", "_", "t", "i", "m", "e", ":">> \o to_string(stats.min_time) \o <<"u", "s", CR, LF>> \o
        cmd \o <<"_", "m", "a", "x", "_", "t", "i", "m", "e", ":">> \o to_string(stats.max_time) \o <<"u", "s", CR, LF>>
   ELSE <<>>)

\* the iteration of handle_info over cmd_stats_, in the order of names
RECURSIVE info_entries(_, _)
info_entries(stats, names) ==
  IF names = <<>> THEN <<>>
  ELSE (IF Head(names) \in DOMAIN stats
        THEN info_entry(Head(names), stats[Head(names)]) ELSE <<>>)
       \o info_entries(stats, Tail(names))

\* CommandHandler::handle_info: the header announces 1024 bytes
handle_info(stats) ==
  <<"$">> \o to_string(1024) \o <<CR, LF>> \o
  <<"#", " ", "C", "o", "m", "m", "a", "n", "d", "s", CR, LF>> \o
  info_entries(stats, <<name_del, name_get, name_info, name_mget, name_mset, name_set>>) \o
  <<CR, LF>>

\* the argument checks of handle_mset, without and with the parity test
mset_unpaired_accepted(args) == Len(args) < 3
mset_wrong_arguments(args) == Len(args) < 3 \/ Len(args) % 2 # 1

\* a handler that returns at once: the reply is the outcome of the command;
\* handle records the time of every handler it found in cmd_handlers_
ReplyNow(t, op, reply, cmd_name) ==
  /\ pc[t] = "idle"
  /\ res' = [NoResult EXCEPT !.thread = t, !.op = op, !.value = "reply", !.acc = reply]
  /\ n_ops' = n_ops + 1
  /\ \E d \in IF cmd_name = <<>> THEN {0} ELSE Durations :
       cmd_stats_' = IF d = 0 THEN cmd_stats_
                     ELSE update_command_stats(cmd_stats_, cmd_name, d)
  /\ UNCHANGED <<pc, frame, submap_mutex, get_returns, settled, log>>
  /\ UNCHANGED <<varsCache, varsConfig, submap_store, varsElsewhere>>

\* a handler that calls the store
CallStore(t, p, f) ==
  /\ BeginStore(t, p, f)
  /\ UNCHANGED <<varsCache, varsConfig, submap_store, varsElsewhere>>

\* CommandHandler::handle with the handler it dispatches to, up to the
\* handler's first call of the store
Handle(t, cmd) ==
  IF cmd = <<>> THEN ReplyNow(t, "empty", empty_command, <<>>)
  ELSE
  LET cmd_name == tolower(cmd[1]) IN
  IF cmd_name \notin cmd_handlers_
  THEN ReplyNow(t, "unknown", unknown_command(cmd_name), <<>>)
  ELSE CASE cmd_name = name_set ->
              IF Len(cmd) # 3
              THEN ReplyNow(t, "SET", wrong_arguments(name_set), cmd_name)
              ELSE CallStore(t, "put",
                     [StoreCall("SET", "put", cmd[2], cmd[3])
                        EXCEPT !.caller = "DataStore::set", !.handler = cmd_name])
         [] cmd_name = name_get ->
              IF Len(cmd) # 2
              THEN ReplyNow(t, "GET", wrong_arguments(name_get), cmd_name)
              ELSE CallStore(t, "get",
                     [StoreCall("GET", "get", cmd[2], None)
                        EXCEPT !.caller = "DataStore::get", !.handler = cmd_name])
         [] cmd_name = name_del ->
              IF Len(cmd) # 2
              THEN ReplyNow(t, "DEL", wrong_arguments(name_del), cmd_name)
              ELSE CallStore(t, "remove",
                     [StoreCall("DEL", "remove", cmd[2], None)
                        EXCEPT !.caller = "DataStore::del", !.handler = cmd_name])
         [] cmd_name = name_mset ->
              IF mset_wrong_arguments(cmd)
              THEN ReplyNow(t, "MSET", wrong_arguments(name_mset), cmd_name)
              ELSE CallStore(t, "put",
                     [StoreCall("MSET", "put", cmd[2], cmd[3])
                        EXCEPT !.caller = "DataStore::set", !.handler = cmd_name,
                               !.rest = SubSeq(cmd, 4, Len(cmd))])
         [] cmd_name = name_mget ->
              IF Len(cmd) < 2
              THEN ReplyNow(t, "MGET", wrong_arguments(name_mget), cmd_name)
              ELSE CallStore(t, "get",
                     [StoreCall("MGET", "get", cmd[2], None)
                        EXCEPT !.caller = "DataStore::get", !.handler = cmd_name,
                               !.rest = SubSeq(cmd, 3, Len(cmd))])
         [] cmd_name = name_info ->
              ReplyNow(t, "INFO", handle_info(cmd_stats_), cmd_name)

\* the loops of handle_mset and handle_mget: the next store_->set / store_->get
NextArgument(t) ==
  LET f == frame[t]
      key == f.rest[1]
      g == IF f.op = "MSET"
           THEN [f EXCEPT !.call = "put", !.caller = "DataStore::set", !.key = key,
                          !.value = f.rest[2], !.rest = SubSeq(f.rest, 3, Len(f.rest)),
                          !.path = None, !.alone = FALSE]
           ELSE [f EXCEPT !.call = "get", !.caller = "DataStore::get", !.key = key,
                          !.value = None, !.rest = Tail(f.rest),
                          !.path = None, !.alone = FALSE]
  IN /\ pc[t] = "next"
     /\ pc' = [pc EXCEPT ![t] = IF f.op = "MSET" THEN "put" ELSE "get"]
     /\ frame' = [u \in Threads |->
                    IF u = t THEN g
                    ELSE IF frame[u].key = key
                    THEN [frame[u] EXCEPT !.alone = FALSE, !.clean = FALSE, !.expect = None]
                    ELSE frame[u]]
     /\ settled' = IF f.op = "MSET" THEN [settled EXCEPT ![key] = None] ELSE settled
     /\ UNCHANGED <<res, submap_mutex, get_returns, log, cmd_stats_, n_ops>>
     /\ UNCHANGED <<varsCache, varsConfig, submap_store, varsElsewhere>>


(***************************************************************************)
(* Initial states                                                          *)
(***************************************************************************)

\* a cache as its constructor leaves it, over a store whose sub-maps hold
\* what load_shard read from the persisted files
InitData(policy, initial_capacity, min_capacity, max_capacity, loaded, logs) ==
  /\ items = [s \in ShardIds |-> <<>>]
  /\ item_map = [s \in ShardIds |-> {}]
  /\ shard_mutex = [s \in ShardIds |-> Unlocked]
  /\ policy_mutex_ = None
  /\ policy_type = policy
  /\ size_ = 0
  /\ capacity_ = initial_capacity
  /\ min_capacity_ = min_capacity
  /\ max_capacity_ = max_capacity
  /\ hits_ = 0 /\ misses_ = 0 /\ evictions_ = 0 /\ expirations_ = 0
  /\ now = 0
  /\ submap_store = loaded
  /\ submap_mutex = [m \in SubMapIds |-> Unlocked]
  /\ pc = [t \in Threads |-> "idle"]
  /\ frame = [t \in Threads |-> IdleFrame]
  /\ res = NoResult
  /\ n_ops = 0
  /\ get_returns = 0
  /\ settled = [k \in Keys |-> None]
  /\ logging = logs
  /\ log = <<>>
  /\ cmd_stats_ = <<>>

(***************************************************************************)
(* RedisServer (src/src/RedisServer.cpp): the reactor, and the read,       *)
(* command and write tasks it hands to the thread pools, for one client.   *)
(***************************************************************************)
ReadThreads == {"r1"}
CommandThreads == {"c1", "c2"}
WriteThreads == {"w1", "w2"}

IsPrefix(s, t) == Len(s) <= Len(t) /\ SubSeq(t, 1, Len(s)) = s

\* CommandHandler::handle for a command whose name is not in cmd_handlers_:
\* "-ERR unknown command '<name>'\r\n", the fixed words left out
handle(cmd) == <<"-">> \o cmd[1] \o <<CR, LF>>
\* handle_pipeline: the replies of the commands, in order
handle_pipeline(cmds) == [i \in 1..Len(cmds) |-> handle(cmds[i])]

\* std::copy(result, write_buffer.begin() + write_pos)
WriteAt(buf, pos, bytes) ==
  [i \in 1..Max(Len(buf), pos + Len(bytes)) |->
     IF i > pos /\ i <= pos + Len(bytes) THEN bytes[i - pos] ELSE buf[i]]
\* std::copy(begin + n, begin + wp, begin)
ShiftDown(buf, n, wp) ==
  [i \in 1..Len(buf) |-> IF i <= wp - n THEN buf[i + n] ELSE buf[i]]

varsOutsideConn == <<varsParser, varsData, varsWorker, varsMore>>

\* the network delivers the next n bytes the client wrote; the stream is cut
\* between segments only at the offsets in SegmentEnds, or not at all
HeaderCut == 4
CommandCut == 11
SegmentEnds == {HeaderCut, CommandCut}
ArrivalSizes(delivered, left) ==
  {n \in 1..left : n = left \/ delivered + n \in SegmentEnds}
Arrive(n) ==
  /\ n \in 1..Len(net_in)
  /\ sock_in' = sock_in \o Take(net_in, n)
  /\ net_in' = Drop(net_in, n)
  /\ epollin_ready' = TRUE
  /\ UNCHANGED <<sock_full, epollout_ready, epollout_armed, conn_parser,
                 read_buffer, write_buffer, write_pos, read_queue, read_task,
                 cmd_queue, cmd_task, write_queue, write_task, sent, parsed,
                 appended, varsOutsideConn>>

\* the client reads what the socket holds: the fd becomes writable again
Drain ==
  /\ sock_full
  /\ sock_full' = FALSE
  /\ epollout_ready' = (epollout_armed \/ epollout_ready)
  /\ UNCHANGED <<net_in, sock_in, epollin_ready, epollout_armed, conn_parser,
                 read_buffer, write_buffer, write_pos, read_queue, read_task,
                 cmd_queue, cmd_task, write_queue, write_task, sent, parsed,
                 appended, varsOutsideConn>>

\* epoll_loop, for the event of this fd: EPOLLIN queues a handle_read task,
\* EPOLLOUT a handle_write_ready task
epoll_loop ==
  /\ epollin_ready \/ epollout_ready
  /\ read_queue' = IF epollin_ready THEN read_queue + 1 ELSE read_queue
  /\ write_queue' = IF epollout_ready THEN write_queue + 1 ELSE write_queue
  /\ epollin_ready' = FALSE
  /\ epollout_ready' = FALSE
  /\ UNCHANGED <<net_in, sock_in, sock_full, epollout_armed, conn_parser,
                 read_buffer, write_buffer, write_pos, read_task, cmd_queue,
                 cmd_task, write_task, sent, parsed, appended, varsOutsideConn>>

\* a read thread takes a handle_read task
ReadStart(r) ==
  /\ read_queue > 0
  /\ read_task[r] = "idle"
  /\ read_queue' = read_queue - 1
  /\ read_task' = [read_task EXCEPT ![r] = "recv"]
  /\ UNCHANGED <<net_in, sock_in, sock_full, epollin_ready, epollout_ready,
                 epollout_armed, conn_parser, read_buffer, write_buffer,
                 write_pos, cmd_queue, cmd_task, write_queue, write_task, sent,
                 parsed, appended, varsOutsideConn>>

\* handle_read, one turn of its loop: recv; EAGAIN ends the task; the bytes
\* go to the parser, and the commands it returns go to the command pool.
\* With no command they are also copied to read_buffer, and
\* try_parse_command parses the whole of read_buffer, handles what that
\* returns on this thread and stores the replies without write_mutex.
handle_read(r) ==
  /\ read_task[r] = "recv"
  /\ IF sock_in = <<>>
     THEN /\ read_task' = [read_task EXCEPT ![r] = "idle"]
          /\ UNCHANGED <<sock_in, conn_parser, read_buffer, write_buffer, write_pos,
                         cmd_queue, epollout_armed, epollout_ready, parsed, appended>>
     ELSE LET direct == parse(conn_parser, sock_in)
              direct_ctx == [buffer |-> direct.buffer, position |-> direct.position,
                             completed_values |-> direct.completed_values]
              copied == read_buffer \o sock_in
              again == parse(direct_ctx, copied)
              results == SeqConcat(handle_pipeline(again.cmds))
          IN /\ sock_in' = <<>>
             /\ IF direct.threw
                THEN /\ conn_parser' = direct_ctx
                     /\ read_task' = [read_task EXCEPT ![r] = "idle"]
                     /\ UNCHANGED <<read_buffer, write_buffer, write_pos, cmd_queue,
                                    epollout_armed, epollout_ready, parsed, appended>>
                ELSE IF direct.cmds # <<>>
                THEN /\ conn_parser' = direct_ctx
                     /\ cmd_queue' = Append(cmd_queue, direct.cmds)
                     /\ parsed' = parsed \o direct.cmds
                     /\ UNCHANGED <<read_task, read_buffer, write_buffer, write_pos,
                                    epollout_armed, epollout_ready, appended>>
                ELSE /\ conn_parser' = [buffer |-> again.buffer, position |-> again.position,
                                        completed_values |-> again.completed_values]
                     /\ read_task' = [read_task EXCEPT ![r] =
                                        IF again.threw THEN "idle" ELSE "recv"]
                     /\ UNCHANGED cmd_queue
                     /\ IF again.threw \/ again.cmds = <<>>
                        THEN /\ read_buffer' = copied
                             /\ UNCHANGED <<write_buffer, write_pos, epollout_armed,
                                            epollout_ready, parsed, appended>>
                        ELSE /\ read_buffer' = <<>>
                             /\ write_buffer' = WriteAt(write_buffer, write_pos, results)
                             /\ write_pos' = write_pos + Len(results)
                             /\ epollout_armed' = TRUE
                             /\ epollout_ready' = (~sock_full \/ epollout_ready)
                             /\ parsed' = parsed \o again.cmds
                             /\ appended' = appended \o results
  /\ UNCHANGED <<net_in, sock_full, epollin_ready, read_queue, cmd_task,
                 write_queue, write_task, sent, varsOutsideConn>>

\* a command thread takes the oldest batch
CommandStart(c) ==
  /\ cmd_queue # <<>>
  /\ cmd_task[c] = <<>>
  /\ cmd_task' = [cmd_task EXCEPT ![c] = Head(cmd_queue)]
  /\ cmd_queue' = Tail(cmd_queue)
  /\ UNCHANGED <<net_in, sock_in, sock_full, epollin_ready, epollout_ready,
                 epollout_armed, conn_parser, read_buffer, write_buffer,
                 write_pos, read_queue, read_task, write_queue, write_task,
                 sent, parsed, appended, varsOutsideConn>>

\* process_commands: handle the batch, store the replies under write_mutex,
\* register the fd for EPOLLOUT
process_commands(c) ==
  LET results == SeqConcat(handle_pipeline(cmd_task[c]))
  IN /\ cmd_task[c] # <<>>
     /\ write_buffer' = WriteAt(write_buffer, write_pos, results)
     /\ write_pos' = write_pos + Len(results)
     /\ appended' = appended \o results
     /\ epollout_armed' = TRUE
     /\ epollout_ready' = (~sock_full \/ epollout_ready)
     /\ cmd_task' = [cmd_task EXCEPT ![c] = <<>>]
     /\ UNCHANGED <<net_in, sock_in, sock_full, epollin_ready, conn_parser,
                    read_buffer, read_queue, read_task, cmd_queue, write_queue,
                    write_task, sent, parsed, varsOutsideConn>>

\* a write thread takes a handle_write_ready task: it returns at once when
\* write_pos is 0, else it copies write_pos under write_mutex
IdleWrite == [pc |-> "idle", write_pos |-> 0, n |-> 0]
WriteStart(w) ==
  /\ write_queue > 0
  /\ write_task[w].pc = "idle"
  /\ write_queue' = write_queue - 1
  /\ write_task' = [write_task EXCEPT ![w] =
                      IF write_pos = 0 THEN IdleWrite
                      ELSE [pc |-> "send", write_pos |-> write_pos, n |-> 0]]
  /\ UNCHANGED <<net_in, sock_in, sock_full, epollin_ready, epollout_ready,
                 epollout_armed, conn_parser, read_buffer, write_buffer,
                 write_pos, read_queue, read_task, cmd_queue, cmd_task, sent,
                 parsed, appended, varsOutsideConn>>

\* the sizes send() may accept of a request of wp bytes: all, or a short count
ShortCount == 3
SendSizes(wp) == {n \in 1..wp : n = wp \/ n = ShortCount}

\* send(fd, write_buffer.data(), write_pos) with no lock held
WriteSend(w) ==
  /\ write_task[w].pc = "send"
  /\ IF sock_full
     THEN /\ write_task' = [write_task EXCEPT ![w] = IdleWrite]
          /\ UNCHANGED <<sent, sock_full>>
     ELSE \E n \in SendSizes(write_task[w].write_pos) :
            /\ sent' = sent \o Take(write_buffer, n)
            /\ sock_full' = (n < write_task[w].write_pos)
            /\ write_task' = [write_task EXCEPT ![w] =
                                [pc |-> "update", write_pos |-> @.write_pos, n |-> n]]
  /\ UNCHANGED <<net_in, sock_in, epollin_ready, epollout_ready, epollout_armed,
                 conn_parser, read_buffer, write_buffer, write_pos, read_queue,
                 read_task, cmd_queue, cmd_task, write_queue, parsed, appended,
                 varsOutsideConn>>

\* the second critical section of handle_write_ready
WriteUpdate(w) ==
  LET n == write_task[w].n
  IN /\ write_task[w].pc = "update"
     /\ IF n < write_pos
        THEN /\ write_buffer' = ShiftDown(write_buffer, n, write_pos)
             /\ write_pos' = write_pos - n
             /\ UNCHANGED <<epollout_armed, epollout_ready>>
        ELSE /\ write_pos' = 0
             /\ epollout_armed' = FALSE
             /\ epollout_ready' = FALSE
             /\ UNCHANGED write_buffer
     /\ write_task' = [write_task EXCEPT ![w] = IdleWrite]
     /\ UNCHANGED <<net_in, sock_in, sock_full, epollin_ready, conn_parser,
                    read_buffer, read_queue, read_task, cmd_queue, cmd_task,
                    write_queue, sent, parsed, appended, varsOutsideConn>>

\* the state of a connection that has just been accepted; stream is what
\* the client will write
InitConnection(stream) ==
  /\ net_in = stream /\ sock_in = <<>> /\ sock_full = FALSE
  /\ epollin_ready = FALSE /\ epollout_ready = FALSE /\ epollout_armed = FALSE
  /\ conn_parser = EmptyContext
  /\ read_buffer = <<>> /\ write_buffer = <<>> /\ write_pos = 0
  /\ read_queue = 0 /\ read_task = [r \in ReadThreads |-> "idle"]
  /\ cmd_queue = <<>> /\ cmd_task = [c \in CommandThreads |-> <<>>]
  /\ write_queue = 0 /\ write_task = [w \in WriteThreads |-> IdleWrite]
  /\ sent = <<>> /\ parsed = <<>> /\ appended = <<>>

ParkedConn == InitConnection(<<>>)

(***************************************************************************)
(* WorkerThread (src/src/ThreadPool.cpp): one client of one worker.        *)
(***************************************************************************)
varsOutsideWorker == <<varsParser, varsData, varsConn, varsMore>>

SockCapacity == 6

\* send_response for each reply in turn: one send(), which takes what the
\* socket's send queue has room for; its result is used only to detect errors
RECURSIVE send_responses(_, _, _)
send_responses(replies, room, out) ==
  IF replies = <<>> THEN [room |-> room, sent |-> out]
  ELSE LET n == Min(room, Len(Head(replies)))
       IN send_responses(Tail(replies), room - n, out \o Take(Head(replies), n))

\* handle_client_event: EPOLLIN runs process_client_data, which receives the
\* next k commands whole, parses them and answers each; EPOLLOUT does nothing
handle_client_event(epollin, k) ==
  /\ k \in 1..Len(wk_pending)
  /\ IF epollin
     THEN LET cmds == parse(EmptyContext, serialize(Take(wk_pending, k))).cmds
              replies == handle_pipeline(cmds)
              s == send_responses(replies, wk_sock_room, <<>>)
          IN /\ wk_pending' = Drop(wk_pending, k)
             /\ wk_produced' = wk_produced \o SeqConcat(replies)
             /\ wk_sent' = wk_sent \o s.sent
             /\ wk_sock_room' = s.room
             /\ UNCHANGED wk_write_buffer
     ELSE UNCHANGED varsWorker
  /\ UNCHANGED varsOutsideWorker

\* the client reads k bytes of what the socket holds
WorkerDrain(k) ==
  /\ k \in 1..(SockCapacity - wk_sock_room)
  /\ wk_sock_room' = wk_sock_room + k
  /\ UNCHANGED <<wk_pending, wk_sent, wk_produced, wk_write_buffer, varsOutsideWorker>>

InitClientInfo(stream, room) ==
  /\ wk_pending = stream /\ wk_sock_room = room
  /\ wk_sent = <<>> /\ wk_produced = <<>> /\ wk_write_buffer = <<>>

ParkedWorker == InitClientInfo(<<>>, 0)


(***************************************************************************)
(* The worker pool (src/src/ThreadPool.cpp): assign_client hands a new     *)
(* client to a worker; each worker drops a client when it disconnects.     *)
(***************************************************************************)
WorkerCount == 3
WorkerIds == 0..(WorkerCount - 1)
AssignFds == {7, 8, 9}
NoWorker == -1
varsOutsideAssign == <<varsParser, varsData, varsConn, varsWorker, varsAccept, varsBuffers,
                       varsRouting, varsLater>>

IdleAssign ==
  [pc |-> "idle", client_fd |-> 0, i |-> 0, best_worker |-> 0, min_clients |-> 0,
   at_call |-> <<>>, clean |-> FALSE, added |-> FALSE]

\* the loop test of assign_client: a later worker replaces the best one
\* only when it has fewer clients; FewerOrEqual is the test with <=
FewerOrEqual(count, min_clients) == count <= min_clients
Fewer(count, min_clients) == count < min_clients

\* assign_client(client_fd) begins: best_worker = 0 and min_clients is the
\* count of worker 0; at_call keeps the counts the call started with, and
\* clean says that no worker has changed its count since
AssignStart(client_fd) ==
  /\ assign.pc = "idle"
  /\ \A w \in WorkerIds : client_fd \notin workers_[w].clients_
  /\ assign' = [pc |-> IF 1 < WorkerCount THEN "scan" ELSE "add",
                client_fd |-> client_fd, i |-> 1, best_worker |-> 0,
                min_clients |-> workers_[0].client_count_,
                at_call |-> [w \in WorkerIds |-> workers_[w].client_count_],
                clean |-> TRUE, added |-> FALSE]
  /\ UNCHANGED <<workers_, client_to_worker_, varsOutsideAssign>>

\* one round of the loop over workers_[1 ..]
AssignScan ==
  LET count == workers_[assign.i].client_count_
      better == Fewer(count, assign.min_clients)
  IN /\ assign.pc = "scan"
     /\ assign' = [assign EXCEPT
                     !.min_clients = IF better THEN count ELSE @,
                     !.best_worker = IF better THEN assign.i ELSE @,
                     !.i = @ + 1,
                     !.pc = IF assign.i + 1 < WorkerCount THEN "scan" ELSE "add"]
     /\ UNCHANGED <<workers_, client_to_worker_, varsOutsideAssign>>

\* WorkerThread::add_client on the chosen worker: when epoll_ctl fails the fd
\* is closed and the worker's table is left alone
add_client ==
  LET w == assign.best_worker
  IN /\ assign.pc = "add"
     /\ \E epoll_ok \in BOOLEAN :
          /\ workers_' = IF epoll_ok
                         THEN [workers_ EXCEPT
                                 ![w].clients_ = @ \cup {assign.client_fd},
                                 ![w].client_count_ = @ + 1]
                         ELSE workers_
          /\ assign' = [assign EXCEPT !.pc = "record", !.added = epoll_ok]
     /\ UNCHANGED <<client_to_worker_, varsOutsideAssign>>

\* client_to_worker_[client_fd] = best_worker, and the call returns
AssignRecord ==
  /\ assign.pc = "record"
  /\ client_to_worker_' = [client_to_worker_ EXCEPT ![assign.client_fd] = assign.best_worker]
  /\ assign' = IdleAssign
  /\ UNCHANGED <<workers_, varsOutsideAssign>>

\* WorkerThread::remove_client, run by worker w when a client disconnects
remove_client(w, client_fd) ==
  /\ client_fd \in workers_[w].clients_
  /\ workers_' = [workers_ EXCEPT ![w].clients_ = @ \ {client_fd},
                                  ![w].client_count_ = @ - 1]
  /\ assign' = [assign EXCEPT !.clean = FALSE]
  /\ UNCHANGED <<client_to_worker_, varsOutsideAssign>>

InitWorkers ==
  /\ workers_ = [w \in WorkerIds |-> [clients_ |-> {}, client_count_ |-> 0]]
  /\ client_to_worker_ = [fd \in AssignFds |-> NoWorker]
  /\ assign = IdleAssign
ParkedAssign == InitWorkers

(***************************************************************************)
(* RedisServer's connection table (src/src/RedisServer.cpp) and the pool   *)
(* of ClientContext objects (src/include/ClientContextPool.h).  Every      *)
(* connection sends one chunk, the beginning of a command, and may close.  *)
(***************************************************************************)
ServerFds == {5, 6, 7}
ReadTasks == {"r1", "r2"}
max_connections == 2
max_accept_per_round == 2
MaxAccepted == 3
num_shards_ == 2
initial_size == 2
max_pool_size == 5000
INITIAL_BUFFER_SIZE == 8192
MAX_BUFFER_SIZE == 524288
PartialChunk == <<"*", "1", CR, LF, "$", "1", CR, LF, "a">>
NoContext == 0
CtxIds == 1..(num_shards_ + Cardinality(ServerFds) + Cardinality(ReadTasks))
varsOutsideAccept == <<varsParser, varsData, varsConn, varsWorker, varsAssign, varsBuffers,
                       varsRouting, varsLater>>

\* std::vector<char>(n): n elements in a block of n
Vector(n) == [size |-> n, capacity |-> n]
\* ClientContext(client_fd); read_data is read_buffer[0 .. read_pos)
ClientContext(client_fd) ==
  [live |-> TRUE, fd |-> client_fd, read_buffer |-> Vector(INITIAL_BUFFER_SIZE),
   write_buffer |-> Vector(INITIAL_BUFFER_SIZE), read_pos |-> 0, write_pos |-> 0,
   read_data |-> <<>>, has_large_buffer |-> FALSE, needs_upgrade |-> FALSE]
Deleted == [ClientContext(-1) EXCEPT !.live = FALSE]

\* resize(n) of a buffer
resize(b, n) == [size |-> n, capacity |-> Max(b.capacity, n)]
\* a buffer of ClientContext::reset when no large buffer is in use: a block
\* above twice the initial size is replaced, any other is cleared, shrunk
\* and resized
reset_buffer(b) ==
  IF b.capacity > INITIAL_BUFFER_SIZE * 2 THEN Vector(INITIAL_BUFFER_SIZE)
  ELSE resize(Vector(0), INITIAL_BUFFER_SIZE)
\* return_buffers: hand the blocks above twice the initial size to the
\* BufferManager and take fresh ones
return_buffer(b) ==
  IF b.capacity > INITIAL_BUFFER_SIZE * 2 THEN Vector(INITIAL_BUFFER_SIZE) ELSE b
return_buffers(c) ==
  IF ~c.has_large_buffer THEN c
  ELSE [c EXCEPT !.read_buffer = return_buffer(@), !.write_buffer = return_buffer(@),
                 !.has_large_buffer = FALSE]
reset(c, client_fd) ==
  LET d == [c EXCEPT !.fd = client_fd, !.read_pos = 0, !.write_pos = 0,
                     !.read_data = <<>>, !.needs_upgrade = FALSE]
  IN IF c.has_large_buffer
     THEN LET e == return_buffers(d)
          IN [e EXCEPT !.read_buffer = resize(@, INITIAL_BUFFER_SIZE),
                       !.write_buffer = resize(@, INITIAL_BUFFER_SIZE),
                       !.has_large_buffer = FALSE]
     ELSE [d EXCEPT !.read_buffer = reset_buffer(@), !.write_buffer = reset_buffer(@)]

\* ensure_read_capacity(additional_size)
RECURSIVE GrowTo(_, _)
GrowTo(new_size, required_capacity) ==
  IF new_size < required_capacity
  THEN GrowTo((new_size * 3) \div 2, required_capacity)
  ELSE Min(new_size, MAX_BUFFER_SIZE)
ensure_read_capacity(c, additional_size) ==
  LET required_capacity == c.read_pos + additional_size
      new_size == GrowTo(c.read_buffer.size, required_capacity)
  IN IF c.read_buffer.size >= required_capacity THEN c
     ELSE [c EXCEPT !.needs_upgrade = (new_size > INITIAL_BUFFER_SIZE * 4
                                        /\ ~c.has_large_buffer) \/ @,
                    !.read_buffer = resize(@, new_size)]

\* ClientContextPool::get_shard_index
pool_shard_index(client_fd) == client_fd % num_shards_
PoolShards == 0..(num_shards_ - 1)
shard_max_size == max_pool_size \div num_shards_

\* ClientContextPool::acquire: the context at the back of the fd's shard,
\* reset, or a new one when the shard has none
pool_acquire(h, client_fd) ==
  LET shard == pool_shard_index(client_fd)
      avail == h.pool[shard]
  IN IF avail # <<>>
     THEN LET c == avail[Len(avail)]
          IN [c |-> c,
              h |-> [h EXCEPT !.pool[shard] = Take(avail, Len(avail) - 1),
                              !.contexts[c] = reset(@, client_fd)]]
     ELSE LET c == CHOOSE n \in CtxIds :
                     ~h.contexts[n].live /\ \A m \in CtxIds : ~h.contexts[m].live => n <= m
          IN [c |-> c, h |-> [h EXCEPT !.contexts[c] = ClientContext(client_fd)]]

\* ClientContextPool::release, run by the deleter of the last shared_ptr
pool_release(h, c) ==
  LET returned == return_buffers(h.contexts[c])
      shard == pool_shard_index(returned.fd)
  IN IF Len(h.pool[shard]) < shard_max_size
     THEN [h EXCEPT !.contexts[c] = returned, !.pool[shard] = Append(@, c)]
     ELSE [h EXCEPT !.contexts[c] = Deleted]

\* the contexts no shared_ptr points to any more are released
InPool(h, c) == \E sh \in PoolShards : \E i \in 1..Len(h.pool[sh]) : h.pool[sh][i] = c
Orphans(h, tasks) ==
  {c \in CtxIds : /\ h.contexts[c].live /\ ~InPool(h, c)
                  /\ \A fd \in ServerFds : h.clients[fd] # c
                  /\ \A r \in ReadTasks : tasks[r].client # c}
RECURSIVE Settle(_, _)
Settle(h, tasks) ==
  IF Orphans(h, tasks) = {} THEN h
  ELSE LET c == CHOOSE n \in Orphans(h, tasks) : \A m \in Orphans(h, tasks) : n <= m
       IN Settle(pool_release(h, c), tasks)

\* RedisServer::add_client
AddClient(h, client_fd) ==
  LET a == pool_acquire(h, client_fd)
  IN [a.h EXCEPT !.clients[client_fd] = a.c]

\* the accept4 loop takes connections while there are some, up to
\* max_accept_per_round, each on the lowest fd number that is free
RECURSIVE LowestFree(_, _)
LowestFree(free, n) ==
  IF n = 0 \/ free = {} THEN <<>>
  ELSE LET fd == CHOOSE x \in free : \A y \in free : x <= y
       IN <<fd>> \o LowestFree(free \ {fd}, n - 1)
RECURSIVE AddClients(_, _, _)
AddClients(h, fds, failed) ==
  IF fds = <<>> THEN h
  ELSE AddClients(IF fds[1] \in failed THEN h ELSE AddClient(h, fds[1]),
                  Drop(fds, 1), failed)

\* a client connects
Connect ==
  /\ total_connections_ + backlog < MaxAccepted
  /\ backlog' = backlog + 1
  /\ UNCHANGED <<fd_open, sock, events, heap, parsers_, total_connections_, rd,
                 varsOutsideAccept>>

\* accept_new_connections: the accept4 loop, then epoll_ctl and add_client
\* for each accepted fd; an fd whose epoll_ctl fails is closed
accept_new_connections ==
  LET free == {fd \in ServerFds : ~fd_open[fd]}
      accepted == LowestFree(free, Min(backlog, max_accept_per_round))
      fds == {accepted[i] : i \in 1..Len(accepted)}
  IN /\ backlog > 0
     /\ accepted # <<>>
     /\ backlog' = backlog - Len(accepted)
     /\ total_connections_' = total_connections_ + Len(accepted)
     /\ \E failed \in SUBSET fds :
          /\ fd_open' = [fd \in ServerFds |-> fd_open[fd] \/ fd \in fds \ failed]
          /\ heap' = Settle(AddClients(heap, accepted, failed), rd)
     /\ sock' = [fd \in ServerFds |-> IF fd \in fds THEN "new" ELSE sock[fd]]
     /\ UNCHANGED <<events, parsers_, rd, varsOutsideAccept>>

\* the client of the connection on fd sends its chunk, or closes
ClientSend(fd) ==
  /\ fd_open[fd] /\ sock[fd] = "new"
  /\ sock' = [sock EXCEPT ![fd] = "data"]
  /\ events' = [events EXCEPT ![fd] = TRUE]
  /\ UNCHANGED <<backlog, fd_open, heap, parsers_, total_connections_, rd,
                 varsOutsideAccept>>
PeerClose(fd) ==
  /\ fd_open[fd] /\ sock[fd] \in {"new", "idle"}
  /\ sock' = [sock EXCEPT ![fd] = "eof"]
  /\ events' = [events EXCEPT ![fd] = TRUE]
  /\ UNCHANGED <<backlog, fd_open, heap, parsers_, total_connections_, rd,
                 varsOutsideAccept>>

IdleRead == [pc |-> "idle", client_fd |-> 0, client |-> NoContext]

\* epoll_loop hands the event to a read task; handle_read starts with
\* get_client and returns at once when the fd has no entry
ReadBegin(r, fd) ==
  /\ rd[r].pc = "idle"
  /\ events[fd]
  /\ events' = [events EXCEPT ![fd] = FALSE]
  /\ rd' = [rd EXCEPT ![r] = IF heap.clients[fd] = NoContext THEN IdleRead
                              ELSE [pc |-> "recv", client_fd |-> fd,
                                    client |-> heap.clients[fd]]]
  /\ UNCHANGED <<backlog, fd_open, sock, heap, parsers_, total_connections_,
                 varsOutsideAccept>>

\* RedisServer::remove_client: the entries of clients_ and parsers_ go, the
\* fd is closed
RemoveClient(r, fd) ==
  /\ rd' = [rd EXCEPT ![r] = IdleRead]
  /\ heap' = Settle([heap EXCEPT !.clients[fd] = NoContext], rd')
  /\ parsers_' = [parsers_ EXCEPT ![fd] = <<>>]
  /\ fd_open' = [fd_open EXCEPT ![fd] = FALSE]
  /\ events' = [events EXCEPT ![fd] = FALSE]
  /\ sock' = [sock EXCEPT ![fd] = "idle"]

\* recv in handle_read: an error or end of stream removes the client,
\* EAGAIN ends the task, data goes on to the parser
Recv(r) ==
  LET fd == rd[r].client_fd
  IN /\ rd[r].pc = "recv"
     /\ IF ~fd_open[fd] \/ sock[fd] = "eof"
        THEN RemoveClient(r, fd)
        ELSE /\ rd' = [rd EXCEPT ![r] = IF sock[fd] = "data"
                                         THEN [@ EXCEPT !.pc = "parse"] ELSE IdleRead]
             /\ sock' = [sock EXCEPT ![fd] = IF @ = "data" THEN "idle" ELSE @]
             /\ heap' = Settle(heap, rd')
             /\ UNCHANGED <<fd_open, events, parsers_>>
     /\ UNCHANGED <<backlog, total_connections_, varsOutsideAccept>>

\* RedisServer::get_parser: the fd's entry, made first when there is none
get_parser(client_fd) ==
  IF parsers_[client_fd] = <<>> THEN EmptyContext ELSE parsers_[client_fd][1]

\* the chunk goes to the fd's parser; with no complete command it is copied
\* to the read buffer and try_parse_command parses the read buffer
ParseReceived(r) ==
  LET fd == rd[r].client_fd
      c == rd[r].client
      direct == parse(get_parser(fd), PartialChunk)
      direct_ctx == [buffer |-> direct.buffer, position |-> direct.position,
                     completed_values |-> direct.completed_values]
      grown == ensure_read_capacity(heap.contexts[c], Len(PartialChunk))
      copied == [grown EXCEPT !.read_data = @ \o PartialChunk,
                              !.read_pos = @ + Len(PartialChunk)]
      again == parse(direct_ctx, copied.read_data)
  IN /\ rd[r].pc = "parse"
     /\ rd' = [rd EXCEPT ![r].pc = "recv"]
     /\ IF direct.threw \/ direct.cmds # <<>>
        THEN /\ parsers_' = [parsers_ EXCEPT ![fd] = <<direct_ctx>>]
             /\ UNCHANGED heap
        ELSE /\ parsers_' = [parsers_ EXCEPT ![fd] =
                               <<[buffer |-> again.buffer, position |-> again.position,
                                  completed_values |-> again.completed_values]>>]
             /\ heap' = [heap EXCEPT !.contexts[c] =
                            IF again.threw \/ again.cmds = <<>> THEN copied
                            ELSE [copied EXCEPT !.read_pos = 0, !.read_data = <<>>]]
     /\ UNCHANGED <<backlog, fd_open, sock, events, total_connections_,
                    varsOutsideAccept>>

\* the server after construction: contexts_per_shard contexts in each shard
contexts_per_shard == Max(1, initial_size \div num_shards_)
InitServer ==
  /\ backlog = 0 /\ total_connections_ = 0
  /\ fd_open = [fd \in ServerFds |-> FALSE]
  /\ sock = [fd \in ServerFds |-> "idle"]
  /\ events = [fd \in ServerFds |-> FALSE]
  /\ heap = [clients |-> [fd \in ServerFds |-> NoContext],
             contexts |-> [c \in CtxIds |-> IF c <= num_shards_ * contexts_per_shard
                                            THEN ClientContext(-1) ELSE Deleted],
             pool |-> [sh \in PoolShards |->
                         [j \in 1..contexts_per_shard |-> sh * contexts_per_shard + j]]]
  /\ parsers_ = [fd \in ServerFds |-> <<>>]
  /\ rd = [r \in ReadTasks |-> IdleRead]
ParkedAccept == InitServer


(***************************************************************************)
(* BufferManager (src/include/ClientContextPool.h).  Its callers are       *)
(* ClientContext::upgrade_buffer, which acquires a buffer, swaps it with *)
(* the connection's own and releases what it now holds, and                *)
(* ClientContext::return_buffers, which releases a buffer it has made.  *)
(***************************************************************************)
Small == 4096
Medium == 16384
Large == 65536
XLarge == 262144
Sizes == {Small, Medium, Large, XLarge}
MAX_POOL_SIZE == 100
MaxBufferOps == 3
MaxFill == 1
BufferThreads == {"b1", "b2"}
BufferIds == 1..(MAX_POOL_SIZE + MaxBufferOps)
NoBuffer == 0
varsOutsideBuffers == <<varsParser, varsData, varsConn, varsWorker, varsAssign, varsAccept,
                        varsRouting, varsLater>>

\* BufferManager::get_pool
get_pool(size) == IF size \in {Medium, Large, XLarge} THEN size ELSE Small

\* the class release infers from the capacity
size_of(capacity) ==
  IF capacity >= XLarge THEN XLarge
  ELSE IF capacity >= Large THEN Large
  ELSE IF capacity >= Medium THEN Medium
  ELSE Small

\* the test of release that keeps a pool bounded; AtLimit is the test with <=
AtLimit(n) == n <= MAX_POOL_SIZE
BelowLimit(n) == n < MAX_POOL_SIZE

IdleHeld == [pc |-> "idle", buffer |-> NoBuffer, size |-> Small]
NoBufferYet == [live |-> FALSE, size |-> 0, capacity |-> 0]
LiveVector(n) == [live |-> TRUE, size |-> n, capacity |-> n]

\* acquire(size): the buffer at the back of the class's pool, or
\* new std::vector<char>(size) when the pool is empty
acquire(t, size) ==
  LET pool == pools[get_pool(size)]
      recycled == pool # <<>>
      buf == IF recycled THEN pool[Len(pool)] ELSE next_buffer
  IN /\ held[t].pc = "idle"
     /\ n_buffer_ops < MaxBufferOps
     /\ n_buffer_ops' = n_buffer_ops + 1
     /\ pools' = IF recycled THEN [pools EXCEPT ![get_pool(size)] = Take(pool, Len(pool) - 1)]
                 ELSE pools
     /\ buffers' = IF recycled THEN buffers
                   ELSE [buffers EXCEPT ![buf] = LiveVector(size)]
     /\ next_buffer' = IF recycled THEN next_buffer ELSE next_buffer + 1
     /\ held' = [held EXCEPT ![t] = [pc |-> "acquired", buffer |-> buf, size |-> size]]
     /\ UNCHANGED varsOutsideBuffers

\* upgrade_buffer swaps the acquired buffer with the connection's own, which
\* has INITIAL_BUFFER_SIZE elements
ConnectionBuffers == {LiveVector(INITIAL_BUFFER_SIZE)}
upgrade_buffer(t) ==
  /\ held[t].pc = "acquired"
  /\ \E own \in ConnectionBuffers :
       buffers' = [buffers EXCEPT ![held[t].buffer] = own]
  /\ held' = [held EXCEPT ![t].pc = "release"]
  /\ UNCHANGED <<pools, next_buffer, n_buffer_ops, varsOutsideBuffers>>

\* return_buffers moves a buffer whose capacity is above twice
\* INITIAL_BUFFER_SIZE into a new vector, which it releases
ReturnedCapacities == {(INITIAL_BUFFER_SIZE * 9) \div 4, XLarge}
return_buffers_new(t) ==
  /\ held[t].pc = "idle"
  /\ n_buffer_ops < MaxBufferOps
  /\ n_buffer_ops' = n_buffer_ops + 1
  /\ \E capacity \in ReturnedCapacities :
       buffers' = [buffers EXCEPT ![next_buffer] = LiveVector(capacity)]
  /\ next_buffer' = next_buffer + 1
  /\ held' = [held EXCEPT ![t] = [pc |-> "release", buffer |-> next_buffer, size |-> Small]]
  /\ UNCHANGED <<pools, varsOutsideBuffers>>

\* release(buffer), before the lock: the class is read off the capacity and
\* the buffer is cleared
release_clear(t) ==
  LET buf == held[t].buffer
  IN /\ held[t].pc = "release"
     /\ buffers' = [buffers EXCEPT ![buf].size = 0]
     /\ held' = [held EXCEPT ![t] = [pc |-> "push", buffer |-> buf,
                                      size |-> size_of(buffers[buf].capacity)]]
     /\ UNCHANGED <<pools, next_buffer, n_buffer_ops, varsOutsideBuffers>>

\* release(buffer), under the pool's lock: pushed when the pool is below
\* MAX_POOL_SIZE, deleted otherwise
release_push(t) ==
  LET buf == held[t].buffer
      class == get_pool(held[t].size)
  IN /\ held[t].pc = "push"
     /\ IF BelowLimit(Len(pools[class]))
        THEN /\ pools' = [pools EXCEPT ![class] = Append(@, buf)]
             /\ UNCHANGED buffers
        ELSE /\ buffers' = [buffers EXCEPT ![buf] = NoBufferYet]
             /\ UNCHANGED pools
     /\ held' = [held EXCEPT ![t] = IdleHeld]
     /\ UNCHANGED <<next_buffer, n_buffer_ops, varsOutsideBuffers>>

\* one pool holds `filled` buffers that were returned earlier, the others
\* are empty
InitBuffers(class, filled) ==
  /\ pools = [c \in Sizes |-> IF c = class THEN [i \in 1..filled |-> i] ELSE <<>>]
  /\ buffers = [b \in BufferIds |-> IF b <= filled
                                     THEN [live |-> TRUE, size |-> 0, capacity |-> class]
                                     ELSE NoBufferYet]
  /\ next_buffer = filled + 1
  /\ held = [t \in BufferThreads |-> IdleHeld]
  /\ n_buffer_ops = 0
ParkedBuffers == InitBuffers(Small, 0)

(***************************************************************************)
(* DataStore (src/src/DataStore.cpp): the sub-map every operation puts a   *)
(* key in or looks for it in, and the shard files the constructor loads.   *)
(* A call runs as one step.  enable_compression is false, and cache_size   *)
(* is far above the number of keys, so that cache_ evicts nothing.         *)
(***************************************************************************)
\* values of datastore.shard_count in the configuration file
ShardCounts == {2, 3}
ShardFileIds == UNION {0..(n - 1) : n \in ShardCounts}
RoutedKeys == {"a", "c", "h"}
StoredValues == {"1", "2"}
MaxKvOps == 4
MaxBatch == 2
Batches(S) == UNION {[1..n -> S] : n \in 1..MaxBatch}

\* DataStore::get_shard_index of a store of shard_count shards
store_shard_index(key, shard_count) == hash(key) % shard_count
\* shard_idx, bucket_idx and submap_idx as every operation computes them
Route(key) ==
  <<store_shard_index(key, options_shard_count), get_bucket_index(key),
    get_submap_index(key)>>
SubMapAt(e) == <<e.shard, e.bucket, e.submap>>

\* submap.store.find(key) in the sub-map `at`: the stored value, or Absent
store_find(maps, at, key) ==
  IF \E e \in maps : SubMapAt(e) = at /\ e.key = key
  THEN (CHOOSE e \in maps : SubMapAt(e) = at /\ e.key = key).value
  ELSE Absent
\* submap.store.erase(key)
store_erase(maps, at, key) == {e \in maps : ~(SubMapAt(e) = at /\ e.key = key)}
\* submap.store[key] = value
store_assign(maps, at, key, value) ==
  store_erase(maps, at, key)
    \cup {[shard |-> at[1], bucket |-> at[2], submap |-> at[3],
           key |-> key, value |-> value]}

KvDone(result) ==
  /\ n_kv_ops < MaxKvOps
  /\ n_kv_ops' = n_kv_ops + 1
  /\ kv_result' = result
  /\ UNCHANGED <<varsParser, varsData, varsConn, varsWorker, varsAssign, varsAccept,
                 varsBuffers, varsLater>>

set(key, value) ==
  /\ kv_cache' = [kv_cache EXCEPT ![key] = value]
  /\ sub_maps' = store_assign(sub_maps, Route(key), key, value)
  /\ KvDone(<<>>)
  /\ UNCHANGED <<options_shard_count, shard_files>>

get(key) ==
  LET value == IF kv_cache[key] # Absent THEN kv_cache[key]
               ELSE store_find(sub_maps, Route(key), key)
  IN /\ kv_cache' = [kv_cache EXCEPT ![key] = value]
     /\ KvDone(<<value>>)
     /\ UNCHANGED <<options_shard_count, sub_maps, shard_files>>

del(key) ==
  /\ kv_cache' = [kv_cache EXCEPT ![key] = Absent]
  /\ sub_maps' = store_erase(sub_maps, Route(key), key)
  /\ KvDone(IF store_find(sub_maps, Route(key), key) # Absent
            THEN <<"true">> ELSE <<"false">>)
  /\ UNCHANGED <<options_shard_count, shard_files>>

\* multi_set groups the pairs by sub-map and stores group by group, each group
\* in the order of kvs: the pairs of one key are in one group, so that the
\* store ends as if the pairs were stored one by one
RECURSIVE StoreAll(_, _)
StoreAll(maps, kvs) ==
  IF kvs = <<>> THEN maps
  ELSE StoreAll(store_assign(maps, Route(kvs[1][1]), kvs[1][1], kvs[1][2]), Tail(kvs))
RECURSIVE PutAll(_, _)
PutAll(cache, kvs) ==
  IF kvs = <<>> THEN cache
  ELSE PutAll([cache EXCEPT ![kvs[1][1]] = kvs[1][2]], Tail(kvs))
multi_set(kvs) ==
  /\ kv_cache' = PutAll(kv_cache, kvs)
  /\ sub_maps' = StoreAll(sub_maps, kvs)
  /\ KvDone(<<>>)
  /\ UNCHANGED <<options_shard_count, shard_files>>

\* results[i] of multi_get: the cached value, or what the key's sub-map holds
Lookup(key) ==
  IF kv_cache[key] # Absent THEN kv_cache[key]
  ELSE store_find(sub_maps, Route(key), key)
Requested(keys) == {keys[i] : i \in 1..Len(keys)}
Fetched(keys) ==
  [k \in RoutedKeys |-> IF k \in Requested(keys) THEN Lookup(k) ELSE kv_cache[k]]
multi_get(keys) ==
  /\ kv_cache' = Fetched(keys)
  /\ KvDone([i \in 1..Len(keys) |-> Lookup(keys[i])])
  /\ UNCHANGED <<options_shard_count, sub_maps, shard_files>>

RECURSIVE EraseAllKeys(_, _)
EraseAllKeys(maps, keys) ==
  IF keys = <<>> THEN maps
  ELSE EraseAllKeys(store_erase(maps, Route(keys[1]), keys[1]), Tail(keys))
multi_del(keys) ==
  /\ kv_cache' = [k \in RoutedKeys |-> IF k \in Requested(keys) THEN Absent
                                       ELSE kv_cache[k]]
  /\ sub_maps' = EraseAllKeys(sub_maps, keys)
  /\ KvDone(to_string(Cardinality(sub_maps) - Cardinality(EraseAllKeys(sub_maps, keys))))
  /\ UNCHANGED <<options_shard_count, shard_files>>

prefetch(keys) ==
  /\ kv_cache' = Fetched(keys)
  /\ KvDone(<<>>)
  /\ UNCHANGED <<options_shard_count, sub_maps, shard_files>>

\* persist_shard(i): the records of every sub-map of shard i replace the file
persist_shard(maps, i) == {<<e.key, e.value>> : e \in {x \in maps : x.shard = i}}
\* flush(), and one round of sync_routine: every shard of the store is written;
\* a file of a shard the store does not have stays as it is
Flushed ==
  [i \in ShardFileIds |-> IF i < options_shard_count THEN persist_shard(sub_maps, i)
                          ELSE shard_files[i]]
flush ==
  /\ shard_files' = Flushed
  /\ KvDone(<<>>)
  /\ UNCHANGED <<options_shard_count, sub_maps, kv_cache>>

\* load_shard(i): every record of the file goes into shard i, in the bucket
\* and the sub-map of its key
load_shard(file, i) ==
  {[shard |-> i, bucket |-> get_bucket_index(r[1]), submap |-> get_submap_index(r[1]),
    key |-> r[1], value |-> r[2]] : r \in file}
\* the server stops (~DataStore flushes) and starts again with shard_count
\* read from the configuration file
Restart(shard_count) ==
  /\ shard_files' = Flushed
  /\ options_shard_count' = shard_count
  /\ sub_maps' = UNION {load_shard(Flushed[i], i) : i \in 0..(shard_count - 1)}
  /\ kv_cache' = [k \in RoutedKeys |-> Absent]
  /\ KvDone(<<>>)

\* a store constructed over an empty persist_path
InitDataStore(shard_count) ==
  /\ options_shard_count = shard_count
  /\ sub_maps = {}
  /\ shard_files = [i \in ShardFileIds |-> {}]
  /\ kv_cache = [k \in RoutedKeys |-> Absent]
  /\ kv_result = <<>>
  /\ n_kv_ops = 0
ParkedRouting == InitDataStore(2)

(***************************************************************************)
(* RedisServer (src/src/RedisServer.cpp): connections are accepted on the  *)
(* lowest free fd, send commands and close; the commands a read obtained   *)
(* are a task of the command thread pool that names the connection by its  *)
(* fd.                                                                     *)
(***************************************************************************)
varsOutsideReply == <<varsEarlier, varsStop, varsRun, varsLast>>

ReplyFds == {5, 6}
MaxReplyConns == 3
MaxQueued == 2
ConnIds == 1..MaxReplyConns
ReplyThreads == {"c1", "c2"}
NoReplyTask == [client_fd |-> 0, conn |-> 0]

\* accept4 gives the lowest fd number that is not open; add_client enters the
\* new connection's context in clients_ under it
AcceptClient ==
  LET free == {fd \in ReplyFds : reply_clients[fd] = 0}
  IN /\ connections < MaxReplyConns
     /\ free # {}
     /\ connections' = connections + 1
     /\ reply_clients' = [reply_clients EXCEPT ![LowestFree(free, 1)[1]] = connections + 1]
     /\ UNCHANGED <<reply_queue, reply_task, reply_written, varsOutsideReply>>

\* handle_read: recv gave bytes with complete commands; they are enqueued
\* on commandThreadPool with the fd number
ReadCommands(fd) ==
  /\ reply_clients[fd] # 0
  /\ Len(reply_queue) < MaxQueued
  /\ reply_queue' = Append(reply_queue, [client_fd |-> fd, conn |-> reply_clients[fd]])
  /\ UNCHANGED <<reply_clients, connections, reply_task, reply_written, varsOutsideReply>>

\* handle_read: recv returned 0; remove_client erases the entry of clients_
\* and closes the fd
ReadClosed(fd) ==
  /\ reply_clients[fd] # 0
  /\ reply_clients' = [reply_clients EXCEPT ![fd] = 0]
  /\ UNCHANGED <<connections, reply_queue, reply_task, reply_written, varsOutsideReply>>

\* a command thread takes the oldest task
TakeCommands(c) ==
  /\ reply_task[c] = NoReplyTask
  /\ reply_queue # <<>>
  /\ reply_task' = [reply_task EXCEPT ![c] = Head(reply_queue)]
  /\ reply_queue' = Tail(reply_queue)
  /\ UNCHANGED <<reply_clients, connections, reply_written, varsOutsideReply>>

\* process_commands(cmds, client_fd): get_client(client_fd), return when
\* there is none, else copy the replies to that client's write buffer
ProcessCommands(c) ==
  LET client == reply_clients[reply_task[c].client_fd]
  IN /\ reply_task[c] # NoReplyTask
     /\ reply_task' = [reply_task EXCEPT ![c] = NoReplyTask]
     /\ reply_written' = IF client = 0 THEN reply_written
                         ELSE [reply_written EXCEPT ![client] = @ \cup {reply_task[c].conn}]
     /\ UNCHANGED <<reply_clients, connections, reply_queue, varsOutsideReply>>

InitReply ==
  /\ reply_clients = [fd \in ReplyFds |-> 0]
  /\ connections = 0
  /\ reply_queue = <<>>
  /\ reply_task = [c \in ReplyThreads |-> NoReplyTask]
  /\ reply_written = [conn \in ConnIds |-> {}]
ParkedReply == InitReply

(***************************************************************************)
(* ThreadPool and WorkerThread (src/src/ThreadPool.cpp): the pool is       *)
(* started and stopped, clients are assigned and removed.  Each call runs  *)
(* to its end before the next begins.                                      *)
(***************************************************************************)
varsOutsideStop == <<varsEarlier, varsReply, varsRun, varsLast>>

StopWorkers == {0, 1}
StopFds == {5, 6}
MaxClientCount == 2

\* close(fd)
CloseAll(fds) ==
  /\ pool_open' = pool_open \ fds
  /\ pool_closes' = [fd \in StopFds |-> pool_closes[fd] + (IF fd \in fds THEN 1 ELSE 0)]

\* ThreadPool::start: every worker sets running_ and starts its thread
StartPool ==
  /\ \A w \in StopWorkers : ~pool_workers[w].joinable
  /\ pool_workers' = [w \in StopWorkers |->
                        [pool_workers[w] EXCEPT !.running_ = TRUE, !.joinable = TRUE]]
  /\ pool_last' = "start"
  /\ UNCHANGED <<pool_mapping, pool_open, pool_closes, varsOutsideStop>>

\* WorkerThread::stop: running_ = false, the thread is joined if joinable,
\* every fd of clients_ is closed and clients_ is cleared
StopWorker(worker) ==
  [worker EXCEPT !.running_ = FALSE, !.joinable = FALSE, !.clients_ = {}]

\* ThreadPool::stop: stop() of every worker in turn
StopPool ==
  /\ pool_workers' = [w \in StopWorkers |-> StopWorker(pool_workers[w])]
  /\ CloseAll(UNION {pool_workers[w].clients_ : w \in StopWorkers})
  /\ pool_last' = "stop"
  /\ UNCHANGED <<pool_mapping, varsOutsideStop>>

\* assign_client, entered alone: the lowest index among the workers with the
\* fewest clients
best_worker ==
  CHOOSE w \in StopWorkers :
    \A v \in StopWorkers :
      \/ pool_workers[w].client_count_ < pool_workers[v].client_count_
      \/ pool_workers[w].client_count_ = pool_workers[v].client_count_ /\ w <= v

\* a connection is accepted on fd and ThreadPool::assign_client(fd) is
\* called: add_client of the chosen worker, which closes the fd when
\* epoll_ctl fails, then the entry of client_to_worker_
AssignClient(fd) ==
  /\ fd \notin pool_open
  /\ pool_workers[best_worker].client_count_ < MaxClientCount
  /\ \E epoll_ok \in BOOLEAN :
       /\ pool_workers' = IF epoll_ok
                          THEN [pool_workers EXCEPT
                                  ![best_worker].clients_ = @ \cup {fd},
                                  ![best_worker].client_count_ = @ + 1]
                          ELSE pool_workers
       /\ pool_open' = IF epoll_ok THEN pool_open \cup {fd} ELSE pool_open
       /\ pool_closes' = [pool_closes EXCEPT ![fd] = IF epoll_ok THEN 0 ELSE 1]
  /\ pool_mapping' = [pool_mapping EXCEPT ![fd] = best_worker]
  /\ pool_last' = "assign"
  /\ UNCHANGED varsOutsideStop

\* WorkerThread::remove_client: epoll_ctl DEL and close(fd) first, then the
\* entry of clients_ is erased and counted off if there was one
RemoveFromWorker(worker, fd) ==
  [worker EXCEPT !.clients_ = @ \ {fd},
                 !.client_count_ = IF fd \in worker.clients_ THEN @ - 1 ELSE @]

\* ThreadPool::remove_client(fd): remove_client of the worker the mapping
\* names, then the mapping's entry is erased
PoolRemoveClient(fd) ==
  /\ pool_mapping[fd] # NoWorker
  /\ pool_workers' = [pool_workers EXCEPT ![pool_mapping[fd]] = RemoveFromWorker(@, fd)]
  /\ CloseAll({fd})
  /\ pool_mapping' = [pool_mapping EXCEPT ![fd] = NoWorker]
  /\ pool_last' = "remove"
  /\ UNCHANGED varsOutsideStop

\* the worker's own thread, for an EPOLLERR or EPOLLHUP event of fd:
\* handle_client_event calls remove_client(fd)
WorkerRemoveClient(w, fd) ==
  /\ pool_workers[w].running_ /\ pool_workers[w].joinable
  /\ fd \in pool_workers[w].clients_
  /\ pool_workers' = [pool_workers EXCEPT ![w] = RemoveFromWorker(@, fd)]
  /\ CloseAll({fd})
  /\ pool_last' = "event"
  /\ UNCHANGED <<pool_mapping, varsOutsideStop>>

InitPool ==
  /\ pool_workers = [w \in StopWorkers |->
                       [running_ |-> FALSE, joinable |-> FALSE, clients_ |-> {},
                        client_count_ |-> 0]]
  /\ pool_mapping = [fd \in StopFds |-> NoWorker]
  /\ pool_open = {}
  /\ pool_closes = [fd \in StopFds |-> 0]
  /\ pool_last = "none"
ParkedStop == InitPool

(***************************************************************************)
(* RedisServer::run and epoll_loop (src/src/RedisServer.cpp): the thread   *)
(* that called run() waits for events, hands them to the thread pools and  *)
(* prints the statistics; connections and readable data arrive, the pools  *)
(* finish their tasks, and stop() is called from the signal handler.       *)
(***************************************************************************)
varsOutsideRun == <<varsEarlier, varsReply, varsStop, varsLast>>

RunFds == {5, 6}
ACCEPT_BATCH_SIZE == 4
AcceptSlots == 0..(ACCEPT_BATCH_SIZE - 1)
MaxRunTasks == 2
NoEvents == [server |-> FALSE, clients |-> {}]

\* run(): socket, bind and listen, then epoll_loop's epoll_create1 and
\* epoll_ctl of the listening socket; run() returns when one of them fails
RunStart ==
  /\ run_pc = "start"
  /\ \E ok \in BOOLEAN : run_pc' = IF ok THEN "wait" ELSE "returned"
  /\ UNCHANGED <<stop_requested, listen_ready, client_ready, run_batch,
                 accept_in_progress, run_reads, stats_due, varsOutsideRun>>

\* a client connects
ConnectionArrives ==
  /\ run_pc \notin {"start", "returned"}
  /\ ~listen_ready
  /\ listen_ready' = TRUE
  /\ UNCHANGED <<run_pc, stop_requested, client_ready, run_batch, accept_in_progress,
                 run_reads, stats_due, varsOutsideRun>>

\* a client's bytes arrive
ClientReadable(fd) ==
  /\ run_pc \notin {"start", "returned"}
  /\ fd \notin client_ready
  /\ run_reads + Cardinality(client_ready) + Cardinality(run_batch.clients) < MaxRunTasks
  /\ client_ready' = client_ready \cup {fd}
  /\ UNCHANGED <<run_pc, stop_requested, listen_ready, run_batch, accept_in_progress,
                 run_reads, stats_due, varsOutsideRun>>

\* epoll_wait(epfd, ..., 1000) returns the events that are ready, or none
\* after the second has passed
EpollWait ==
  /\ run_pc = "wait"
  /\ run_batch' = [server |-> listen_ready, clients |-> client_ready]
  /\ listen_ready' = FALSE
  /\ client_ready' = {}
  /\ run_pc' = "dispatch"
  /\ UNCHANGED <<stop_requested, accept_in_progress, run_reads, stats_due,
                 varsOutsideRun>>

\* epoll_wait returns -1 with an errno other than EINTR: the loop breaks,
\* epoll_loop and run() return
EpollWaitFails ==
  /\ run_pc = "wait"
  /\ run_pc' = "returned"
  /\ UNCHANGED <<stop_requested, listen_ready, client_ready, run_batch,
                 accept_in_progress, run_reads, stats_due, varsOutsideRun>>

\* the loop over the returned events: the listening socket's event takes
\* the first free accept slot and queues an accept task, or accepts on this
\* thread when no slot is free; a client's EPOLLIN queues a handle_read task
DispatchEvents ==
  LET free == {j \in AcceptSlots : ~accept_in_progress[j]}
      slot == CHOOSE j \in free : \A k \in free : j <= k
  IN /\ run_pc = "dispatch"
     /\ accept_in_progress' = IF run_batch.server /\ free # {}
                               THEN [accept_in_progress EXCEPT ![slot] = TRUE]
                               ELSE accept_in_progress
     /\ run_reads' = run_reads + Cardinality(run_batch.clients)
     /\ run_batch' = NoEvents
     /\ run_pc' = "stats"
     /\ UNCHANGED <<stop_requested, listen_ready, client_ready, stats_due,
                    varsOutsideRun>>

\* the end of a turn of while (true): print_stats when 30 seconds have
\* passed, then epoll_wait again
PrintStats ==
  /\ run_pc = "stats"
  /\ stats_due' = FALSE
  /\ run_pc' = "wait"
  /\ UNCHANGED <<stop_requested, listen_ready, client_ready, run_batch,
                 accept_in_progress, run_reads, varsOutsideRun>>

\* 30 seconds pass
StatsInterval ==
  /\ run_pc \notin {"start", "returned"}
  /\ ~stats_due
  /\ stats_due' = TRUE
  /\ UNCHANGED <<run_pc, stop_requested, listen_ready, client_ready, run_batch,
                 accept_in_progress, run_reads, varsOutsideRun>>

\* a thread of acceptThreadPool has run the accept task of the slot
AcceptTaskDone(j) ==
  /\ accept_in_progress[j]
  /\ accept_in_progress' = [accept_in_progress EXCEPT ![j] = FALSE]
  /\ UNCHANGED <<run_pc, stop_requested, listen_ready, client_ready, run_batch,
                 run_reads, stats_due, varsOutsideRun>>

\* a thread of readThreadPool has run a handle_read task
ReadTaskDone ==
  /\ run_reads > 0
  /\ run_reads' = run_reads - 1
  /\ UNCHANGED <<run_pc, stop_requested, listen_ready, client_ready, run_batch,
                 accept_in_progress, stats_due, varsOutsideRun>>

\* SIGINT or SIGTERM: signal_handler calls stop(), which records the
\* request; an epoll_wait the signal interrupts returns EINTR and the loop
\* continues with the next epoll_wait
stop ==
  /\ ~stop_requested
  /\ stop_requested' = TRUE
  /\ UNCHANGED <<run_pc, listen_ready, client_ready, run_batch, accept_in_progress,
                 run_reads, stats_due, varsOutsideRun>>

InitRun ==
  /\ run_pc = "start"
  /\ stop_requested = FALSE
  /\ listen_ready = FALSE
  /\ client_ready = {}
  /\ run_batch = NoEvents
  /\ accept_in_progress = [j \in AcceptSlots |-> FALSE]
  /\ run_reads = 0
  /\ stats_due = FALSE
ParkedRun == InitRun

(***************************************************************************)
(* The buffers of one ClientContext (src/include/ClientContextPool.h) as   *)
(* handle_read, process_commands and handle_write_ready of                 *)
(* src/src/RedisServer.cpp fill and empty them.  Buffers are their sizes.  *)
(* A recv brings either bytes of which none is a type tag, so that neither *)
(* parse call returns a command, or commands that the first parse call     *)
(* returns whole.                                                          *)
(***************************************************************************)
BoundsFd == 5
BoundsThreads == {"c1", "c2"}
\* recv fills at most local_buffer, default_buffer_size * 2 bytes
RecvSizes == {65536}
\* total_size of the replies to the commands of one recv
ReplySizes == {5000, 600000}
MaxRecvs == 9
MaxTasks == 2
varsOutsideBounds == <<varsEarlier, varsReply, varsStop, varsRun, varsBatch, buffers_,
                       write_buffer_, read_buffer_, stop_, switch_mutex_,
                       last_submit_time, total_tasks, ran, th>>
IdleTask == [pc |-> "idle", total_size |-> 0]
IdleSend == [pc |-> "idle", write_pos |-> 0]

\* ensure_write_capacity(additional_size), under write_mutex
ensure_write_capacity(c, additional_size) ==
  LET required_capacity == c.write_pos + additional_size
      new_size == GrowTo(c.write_buffer.size, required_capacity)
  IN IF c.write_buffer.size >= required_capacity THEN c
     ELSE [c EXCEPT !.needs_upgrade = (new_size > INITIAL_BUFFER_SIZE * 4
                                        /\ ~c.has_large_buffer) \/ @,
                    !.write_buffer = resize(@, new_size)]

\* std::copy of n bytes to buffer.begin() + pos: past the end of a buffer
\* of the given size the behaviour is undefined; the process is ended or
\* goes on
CopyOutcome(size, pos, n) ==
  IF pos + n > size
  THEN /\ b_overrun' = TRUE
       /\ b_crashed' \in BOOLEAN
  ELSE UNCHANGED <<b_overrun, b_crashed>>

\* handle_read, one round of its loop in which no parse call returns a
\* command: ensure_read_capacity(n), the copy to read_buffer.begin() +
\* read_pos, read_pos += n; try_parse_command returns false
ReadNoCommand(n) ==
  LET grown == ensure_read_capacity(bctx, n)
  IN /\ ~b_crashed /\ b_recvs.none < MaxRecvs
     /\ b_recvs' = [b_recvs EXCEPT !.none = @ + 1]
     /\ bctx' = [grown EXCEPT !.read_pos = @ + n]
     /\ CopyOutcome(grown.read_buffer.size, bctx.read_pos, n)
     /\ b_last' = [op |-> "read", n |-> n, read_pos |-> bctx.read_pos]
     /\ UNCHANGED <<b_queue, b_task, b_write, varsOutsideBounds>>

\* handle_read, one round in which the first parse call returns commands:
\* process_commands goes to commandThreadPool
ReadWholeCommands(total_size) ==
  /\ ~b_crashed /\ b_recvs.whole < MaxTasks
  /\ b_recvs' = [b_recvs EXCEPT !.whole = @ + 1]
  /\ b_queue' = Append(b_queue, total_size)
  /\ b_last' = [op |-> "enqueue", n |-> total_size, read_pos |-> bctx.read_pos]
  /\ UNCHANGED <<bctx, b_task, b_write, b_overrun, b_crashed, varsOutsideBounds>>

\* a command thread takes the task; process_commands computes total_size
\* and calls ensure_write_capacity, which takes and releases write_mutex
EnsureWrite(t) ==
  /\ ~b_crashed /\ b_task[t].pc = "idle" /\ b_queue # <<>>
  /\ b_queue' = Tail(b_queue)
  /\ bctx' = ensure_write_capacity(bctx, Head(b_queue))
  /\ b_task' = [b_task EXCEPT ![t] = [pc |-> "copy", total_size |-> Head(b_queue)]]
  /\ b_last' = [op |-> "ensure", n |-> Head(b_queue), read_pos |-> bctx.read_pos]
  /\ UNCHANGED <<b_write, b_overrun, b_crashed, b_recvs, varsOutsideBounds>>

\* process_commands, under write_mutex again: the replies are copied to
\* write_buffer.begin() + write_pos and write_pos advances
CopyReplies(t) ==
  LET n == b_task[t].total_size
  IN /\ ~b_crashed /\ b_task[t].pc = "copy"
     /\ bctx' = [bctx EXCEPT !.write_pos = @ + n]
     /\ CopyOutcome(bctx.write_buffer.size, bctx.write_pos, n)
     /\ b_task' = [b_task EXCEPT ![t] = IdleTask]
     /\ b_last' = [op |-> "copy", n |-> n, read_pos |-> bctx.read_pos]
     /\ UNCHANGED <<b_queue, b_write, b_recvs, varsOutsideBounds>>

\* handle_write_ready: write_pos is read under write_mutex and that many
\* bytes are sent
SendReplies ==
  /\ ~b_crashed /\ b_write.pc = "idle" /\ bctx.write_pos > 0
  /\ b_write' = [pc |-> "update", write_pos |-> bctx.write_pos]
  /\ b_last' = [op |-> "send", n |-> bctx.write_pos, read_pos |-> bctx.read_pos]
  /\ UNCHANGED <<bctx, b_queue, b_task, b_overrun, b_crashed, b_recvs,
                 varsOutsideBounds>>

\* handle_write_ready, under write_mutex again: the bytes sent leave the
\* write buffer
SentUpdate ==
  LET n == b_write.write_pos
  IN /\ ~b_crashed /\ b_write.pc = "update"
     /\ bctx' = [bctx EXCEPT !.write_pos = IF n < @ THEN @ - n ELSE 0]
     /\ b_write' = IdleSend
     /\ b_last' = [op |-> "sent", n |-> n, read_pos |-> bctx.read_pos]
     /\ UNCHANGED <<b_queue, b_task, b_overrun, b_crashed, b_recvs,
                    varsOutsideBounds>>

InitContext ==
  /\ bctx = ClientContext(BoundsFd)
  /\ b_queue = <<>>
  /\ b_task = [t \in BoundsThreads |-> IdleTask]
  /\ b_write = IdleSend
  /\ b_overrun = FALSE
  /\ b_crashed = FALSE
  /\ b_last = [op |-> "none", n |-> 0, read_pos |-> 0]
  /\ b_recvs = [none |-> 0, whole |-> 0]
ParkedBounds == InitContext

(***************************************************************************)
(* DataStore (src/src/DataStore.cpp): multi_set, multi_get and multi_del   *)
(* as they group their arguments by sub-map and go through the groups.     *)
(* enable_compression is false, cache_ evicts nothing, and the store has   *)
(* two shards, so that e and g are in one sub-map and a is in another.     *)
(***************************************************************************)
BatchKeys == {"a", "e", "g"}
MaxBatchOps == 1
BatchLens == {1, 2, 3}
BatchesOf(S) == UNION {[1..n -> S] : n \in BatchLens}
NoCall == [n |-> 0, op |-> "none", args |-> <<>>, locks |-> <<>>]

\* the orders in which the loops over the unordered_maps of the grouping can
\* visit the sub-maps G that have a group
GroupOrders(G) ==
  {o \in [1..Cardinality(G) -> G] : \A i, j \in 1..Cardinality(G) : o[i] = o[j] => i = j}

BatchDone(op, args, locks, result) ==
  /\ n_kv_ops < MaxBatchOps
  /\ n_kv_ops' = n_kv_ops + 1
  /\ kv_result' = result
  /\ kv_call' = [n |-> n_kv_ops + 1, op |-> op, args |-> args, locks |-> locks]
  /\ UNCHANGED <<options_shard_count, shard_files, varsEarlierThanRouting, varsReply,
                 varsStop, varsRun, varsBounds, buffers_, write_buffer_, read_buffer_,
                 stop_, switch_mutex_, last_submit_time, total_tasks, ran, th>>

\* a group stored so that the first value of a key stays
RECURSIVE StoreGroupFirstWins(_, _, _)
StoreGroupFirstWins(maps, at, group) ==
  IF group = <<>> THEN maps
  ELSE store_assign(StoreGroupFirstWins(maps, at, Tail(group)), at,
                    group[1][1], group[1][2])

\* one group of multi_set under the lock of its sub-map: store[key] = value
\* for the pairs of the group, in the order of kvs
RECURSIVE StoreGroup(_, _, _)
StoreGroup(maps, at, group) ==
  IF group = <<>> THEN maps
  ELSE StoreGroup(store_assign(maps, at, group[1][1], group[1][2]), at, Tail(group))
RECURSIVE StoreGroups(_, _, _)
StoreGroups(maps, order, kvs) ==
  IF order = <<>> THEN maps
  ELSE StoreGroups(StoreGroup(maps, Head(order),
                              SelectSeq(kvs, LAMBDA kv : Route(kv[1]) = Head(order))),
                   Tail(order), kvs)
\* multi_set(kvs): every pair is put in its group and in the cache, then the
\* groups are stored
MultiSet(kvs) ==
  /\ n_kv_ops < MaxBatchOps
  /\ \E order \in GroupOrders({Route(kvs[i][1]) : i \in 1..Len(kvs)}) :
       /\ kv_cache' = PutAll(kv_cache, kvs)
       /\ sub_maps' = StoreGroups(sub_maps, order, kvs)
       /\ BatchDone("multi_set", kvs, order, <<>>)

\* multi_get(keys): results[i] is the cached value; the indices the cache
\* has nothing for are grouped, and every group is looked up under the lock
\* of its sub-map; a value found there is put in the cache
MultiGet(keys) ==
  LET missed == {i \in 1..Len(keys) : kv_cache[keys[i]] = Absent}
      found(k) == store_find(sub_maps, Route(k), k)
  IN /\ n_kv_ops < MaxBatchOps
     /\ \E order \in GroupOrders({Route(keys[i]) : i \in missed}) :
          /\ kv_cache' = [k \in DOMAIN kv_cache |->
                            IF \E i \in missed : keys[i] = k THEN found(k)
                            ELSE kv_cache[k]]
          /\ UNCHANGED sub_maps
          /\ BatchDone("multi_get", keys, order,
                       [i \in 1..Len(keys) |->
                          IF i \in missed THEN found(keys[i]) ELSE kv_cache[keys[i]]])

\* one group of multi_del under the lock of its sub-map: deleted_count +=
\* store.erase(key) for the keys of the group; <<sub-maps, deleted_count>>
RECURSIVE DelGroup(_, _, _)
DelGroup(acc, at, group) ==
  IF group = <<>> THEN acc
  ELSE DelGroup(<<store_erase(acc[1], at, group[1]),
                  acc[2] + (IF store_find(acc[1], at, group[1]) # Absent THEN 1 ELSE 0)>>,
                at, Tail(group))
RECURSIVE DelGroups(_, _, _)
DelGroups(acc, order, keys) ==
  IF order = <<>> THEN acc
  ELSE DelGroups(DelGroup(acc, Head(order),
                          SelectSeq(keys, LAMBDA k : Route(k) = Head(order))),
                 Tail(order), keys)
\* multi_del(keys): every key is removed from the cache and put in its
\* group, then the groups are erased
MultiDel(keys) ==
  /\ n_kv_ops < MaxBatchOps
  /\ \E order \in GroupOrders({Route(keys[i]) : i \in 1..Len(keys)}) :
       LET done == DelGroups(<<sub_maps, 0>>, order, keys)
       IN /\ kv_cache' = [k \in DOMAIN kv_cache |->
                            IF \E i \in 1..Len(keys) : keys[i] = k THEN Absent
                            ELSE kv_cache[k]]
          /\ sub_maps' = done[1]
          /\ BatchDone("multi_del", keys, order, to_string(done[2]))

\* a store of two shards that holds the keys `stored` with the value 1, as
\* load_shard or set has put them there, the keys `cached` also in the cache
InitBatchStore(stored, cached) ==
  /\ options_shard_count = 2
  /\ sub_maps = {[shard |-> store_shard_index(k, 2), bucket |-> get_bucket_index(k),
                  submap |-> get_submap_index(k), key |-> k, value |-> "1"] :
                   k \in stored}
  /\ shard_files = [i \in ShardFileIds |-> {}]
  /\ kv_cache = [k \in BatchKeys |-> IF k \in cached THEN "1" ELSE Absent]
  /\ kv_result = <<>>
  /\ n_kv_ops = 0
  /\ kv_call = NoCall
ParkedBatch == kv_call = NoCall

(***************************************************************************)
(* DoubleBufferThreadPool (src/include/DoubleBufferThreadPool.h,           *)
(* src/src/DoubleBufferThreadPool.cpp): one pool, the threads that run its *)
(* worker_thread, and one thread that calls enqueue.  A section that holds *)
(* the mutex of a buffer is one step; wait_for gives the mutex up, so the  *)
(* wait is a step of its own.  Fewer tasks are submitted than              *)
(* ADJUSTMENT_INTERVAL, so threshold_.adjust() leaves threshold_.current   *)
(* at INITIAL_THRESHOLD.  check_and_adjust_thread_count() sees             *)
(* active_threads_ below workers_.size() after the decrement of its own    *)
(* thread and starts no thread.                                            *)
(*                                                                         *)
(* last_submit_time is kept by its distance from the clock: "unset" before *)
(* the first call of need_switch_buffers, "epoch" for time_point{},        *)
(* "fresh" for a time no more than MAX_WAIT_MS ago, "old" for an earlier   *)
(* one.  A thread inside need_switch_buffers keeps in late whether its own *)
(* now is more than MAX_WAIT_MS after last_submit_time.                    *)
(***************************************************************************)
INITIAL_THRESHOLD == 100
MaxSubmitted == 2
TaskWorkers == {"w1", "w2"}
Submitter == "s1"
PoolThreads == TaskWorkers \cup {Submitter}
NoOwner == "free"
varsTasks == <<buffers_, write_buffer_, read_buffer_, stop_, switch_mutex_,
               last_submit_time, total_tasks, ran, th>>
varsOutsideTasks == <<varsEarlier, varsReply, varsStop, varsRun, varsBounds, varsBatch>>

AtPc(p) ==
  [pc |-> p, idx |-> 0, task |-> 0, check |-> 0, tasks_count |-> 0, late |-> FALSE,
   threshold_met |-> FALSE, time_exceeded |-> FALSE]
\* where a thread goes on when it is through with the buffers
Home(t) == IF t = Submitter THEN AtPc("ready") ELSE AtPc("loop")

\* the clock moves on by more than MAX_WAIT_MS
Aged(last) == IF last = "fresh" THEN "old" ELSE last

\* enqueue up to the end of the section that holds the mutex of the write
\* buffer; on a stopped pool it throws and nothing changes
Enqueue(t) ==
  /\ t = Submitter /\ th[t].pc = "ready"
  /\ total_tasks < MaxSubmitted
  /\ ~stop_
  /\ buffers_' = [buffers_ EXCEPT ![write_buffer_] = Append(@, total_tasks + 1)]
  /\ total_tasks' = total_tasks + 1
  /\ th' = [th EXCEPT ![t] = [AtPc("need") EXCEPT !.check = 1]]
  /\ UNCHANGED <<write_buffer_, read_buffer_, stop_, switch_mutex_, last_submit_time, ran>>
  /\ UNCHANGED varsOutsideTasks

\* need_switch_buffers up to the end of the section that holds the mutex:
\* the static last_submit_time is initialised by the first call, now is read,
\* the tasks of the write buffer are counted and last_submit_time is set to
\* now when there are tasks and it is time_point{}
NeedSwitchCount(t) ==
  /\ th[t].pc = "need"
  /\ LET last == IF last_submit_time = "unset" THEN "fresh" ELSE last_submit_time
         tasks_count == Len(buffers_[write_buffer_])
         first == tasks_count > 0 /\ last = "epoch"
     IN /\ last_submit_time' = IF first THEN "fresh" ELSE last
        /\ th' = [u \in PoolThreads |->
                    IF u = t
                    THEN [th[t] EXCEPT !.pc = "compare", !.tasks_count = tasks_count,
                                       !.late = ~first /\ last \in {"epoch", "old"}]
                    ELSE IF first /\ th[u].pc = "compare"
                         THEN [th[u] EXCEPT !.late = FALSE]
                         ELSE th[u]]
  /\ UNCHANGED <<buffers_, write_buffer_, read_buffer_, stop_, switch_mutex_,
                 total_tasks, ran>>
  /\ UNCHANGED varsOutsideTasks

\* need_switch_buffers: the two conditions, which read last_submit_time
\* outside the mutex
NeedSwitchCompare(t) ==
  /\ th[t].pc = "compare"
  /\ th' = [th EXCEPT ![t].pc = "decide",
                      ![t].threshold_met = th[t].tasks_count >= INITIAL_THRESHOLD,
                      ![t].time_exceeded = th[t].tasks_count > 0 /\ th[t].late]
  /\ UNCHANGED <<buffers_, write_buffer_, read_buffer_, stop_, switch_mutex_,
                 last_submit_time, total_tasks, ran>>
  /\ UNCHANGED varsOutsideTasks

\* need_switch_buffers: the reset of last_submit_time and the return, and
\* the branch that the caller takes on the value returned
NeedSwitchReturn(t) ==
  /\ th[t].pc = "decide"
  /\ LET result == th[t].threshold_met \/ th[t].time_exceeded
         rewind == th[t].time_exceeded
     IN /\ last_submit_time' = IF rewind THEN "epoch" ELSE last_submit_time
        /\ switch_mutex_' = IF th[t].check = 2 /\ ~result THEN NoOwner ELSE switch_mutex_
        /\ th' = [u \in PoolThreads |->
                    IF u = t
                    THEN IF result
                         THEN AtPc(IF th[t].check = 1 THEN "lock" ELSE "switch")
                         ELSE Home(t)
                    ELSE IF rewind /\ th[u].pc = "compare"
                         THEN [th[u] EXCEPT !.late = TRUE]
                         ELSE th[u]]
  /\ UNCHANGED <<buffers_, write_buffer_, read_buffer_, stop_, total_tasks, ran>>
  /\ UNCHANGED varsOutsideTasks

\* the caller takes switch_mutex_ and calls need_switch_buffers again
LockSwitch(t) ==
  /\ th[t].pc = "lock"
  /\ switch_mutex_ = NoOwner
  /\ switch_mutex_' = t
  /\ th' = [th EXCEPT ![t] = [AtPc("need") EXCEPT !.check = 2]]
  /\ UNCHANGED <<buffers_, write_buffer_, read_buffer_, stop_, last_submit_time,
                 total_tasks, ran>>
  /\ UNCHANGED varsOutsideTasks

\* the write buffer becomes the read buffer and the read buffer the write
\* buffer; the caller gives switch_mutex_ up
switch_buffers(t) ==
  /\ th[t].pc = "switch"
  /\ write_buffer_' = read_buffer_
  /\ read_buffer_' = write_buffer_
  /\ switch_mutex_' = NoOwner
  /\ th' = [th EXCEPT ![t] = Home(t)]
  /\ UNCHANGED <<buffers_, stop_, last_submit_time, total_tasks, ran>>
  /\ UNCHANGED varsOutsideTasks

\* worker_thread: the test of stop_ and the section that holds the mutex of
\* the read buffer, up to the wait when the buffer is empty
WorkerTake(t) ==
  /\ t \in TaskWorkers /\ th[t].pc = "loop"
  /\ IF stop_
     THEN /\ th' = [th EXCEPT ![t] = AtPc("exited")]
          /\ UNCHANGED buffers_
     ELSE IF buffers_[read_buffer_] = <<>>
          THEN /\ th' = [th EXCEPT ![t] = [AtPc("wait") EXCEPT !.idx = read_buffer_]]
               /\ UNCHANGED buffers_
          ELSE /\ th' = [th EXCEPT ![t] =
                           [AtPc("run") EXCEPT !.task = Head(buffers_[read_buffer_])]]
               /\ buffers_' = [buffers_ EXCEPT ![read_buffer_] = Tail(@)]
  /\ UNCHANGED <<write_buffer_, read_buffer_, stop_, switch_mutex_, last_submit_time,
                 total_tasks, ran>>
  /\ UNCHANGED varsOutsideTasks

\* worker_thread: wait_for ends, by its predicate or after 100 ms, and the
\* buffer the thread waited on is looked at again
WorkerWait(t) ==
  /\ t \in TaskWorkers /\ th[t].pc = "wait"
  /\ \E timed_out \in BOOLEAN :
       /\ timed_out \/ stop_ \/ buffers_[th[t].idx] # <<>>
       /\ last_submit_time' = IF timed_out THEN Aged(last_submit_time)
                              ELSE last_submit_time
  /\ IF buffers_[th[t].idx] # <<>>
     THEN /\ th' = [th EXCEPT ![t] =
                      [AtPc("run") EXCEPT !.task = Head(buffers_[th[t].idx])]]
          /\ buffers_' = [buffers_ EXCEPT ![th[t].idx] = Tail(@)]
     ELSE /\ th' = [th EXCEPT ![t] = AtPc("idle")]
          /\ UNCHANGED buffers_
  /\ UNCHANGED <<write_buffer_, read_buffer_, stop_, switch_mutex_, total_tasks, ran>>
  /\ UNCHANGED varsOutsideTasks

\* worker_thread: the task taken is run
WorkerRun(t) ==
  /\ t \in TaskWorkers /\ th[t].pc = "run"
  /\ ran' = [ran EXCEPT ![th[t].task] = @ + 1]
  /\ th' = [th EXCEPT ![t] = AtPc("loop")]
  /\ UNCHANGED <<buffers_, write_buffer_, read_buffer_, stop_, switch_mutex_,
                 last_submit_time, total_tasks>>
  /\ UNCHANGED varsOutsideTasks

\* worker_thread: no task was taken; unless stop_ is set the thread calls
\* need_switch_buffers
WorkerIdle(t) ==
  /\ t \in TaskWorkers /\ th[t].pc = "idle"
  /\ th' = [th EXCEPT ![t] = IF stop_ THEN AtPc("loop")
                             ELSE [AtPc("need") EXCEPT !.check = 1]]
  /\ UNCHANGED <<buffers_, write_buffer_, read_buffer_, stop_, switch_mutex_,
                 last_submit_time, total_tasks, ran>>
  /\ UNCHANGED varsOutsideTasks

\* shutdown sets stop_ and waits for the workers
Shutdown ==
  /\ ~stop_
  /\ stop_' = TRUE
  /\ UNCHANGED <<buffers_, write_buffer_, read_buffer_, switch_mutex_, last_submit_time,
                 total_tasks, ran, th>>
  /\ UNCHANGED varsOutsideTasks

\* more than MAX_WAIT_MS go by
TimePasses ==
  /\ last_submit_time = "fresh"
  /\ last_submit_time' = "old"
  /\ UNCHANGED <<buffers_, write_buffer_, read_buffer_, stop_, switch_mutex_,
                 total_tasks, ran, th>>
  /\ UNCHANGED varsOutsideTasks

\* the steps of a thread that is inside a call
Proceed(t) ==
  \/ NeedSwitchCount(t) \/ NeedSwitchCompare(t) \/ NeedSwitchReturn(t)
  \/ LockSwitch(t) \/ switch_buffers(t)
  \/ WorkerTake(t) \/ WorkerWait(t) \/ WorkerRun(t) \/ WorkerIdle(t)

InitThreadPool ==
  /\ buffers_ = [i \in {0, 1} |-> <<>>]
  /\ write_buffer_ = 0
  /\ read_buffer_ = 1
  /\ stop_ = FALSE
  /\ switch_mutex_ = NoOwner
  /\ last_submit_time = "unset"
  /\ total_tasks = 0
  /\ ran = [k \in 1..MaxSubmitted |-> 0]
  /\ th = [t \in PoolThreads |-> Home(t)]
ParkedTasks == InitThreadPool
ParkedLast == ParkedBounds /\ ParkedBatch /\ ParkedTasks

ParkedLater == ParkedReply /\ ParkedStop /\ ParkedRun /\ ParkedLast
ParkedMore == ParkedAssign /\ ParkedAccept /\ ParkedBuffers /\ ParkedRouting /\ ParkedLater


EmptyStore == [k \in Keys |-> Absent]
ParkedData == InitData("LRU", 0, 0, 0, EmptyStore, FALSE)
ParkedParser ==
  /\ buffer = <<>> /\ position = 0 /\ completed_values = <<>>
  /\ p_input = <<>> /\ p_chunks = 0 /\ p_expected = <<>> /\ p_emitted = <<>>
  /\ p_threw = FALSE

(***************************************************************************)
(* SpecParser: one parser fed the serialization of a command sequence      *)
(***************************************************************************)
InitParser ==
  /\ p_expected \in CommandSeqs
  /\ p_input = serialize(p_expected)
  /\ buffer = EmptyContext.buffer
  /\ position = EmptyContext.position
  /\ completed_values = EmptyContext.completed_values
  /\ p_chunks = 0
  /\ p_emitted = <<>>
  /\ p_threw = FALSE
  /\ ParkedData /\ ParkedConn /\ ParkedWorker /\ ParkedMore

NextParser == ParseChunk

SpecParser == InitParser /\ [][NextParser]_vars

\* C3: parser round-trip - once the whole of serialize(C) has been fed, in any
\* partition into chunks, the commands returned by the parse calls are C.
C3_RoundTrip == (p_input = <<>>) => (p_emitted = p_expected)

\* the bytes the parser has been given so far, and the length of the
\* longest run of whole commands at their start
ParserReceived ==
  Take(serialize(p_expected), Len(serialize(p_expected)) - Len(p_input))
WholeCommandsLen ==
  LET lens == {Len(serialize(Take(p_expected, k))) : k \in 0..Len(p_expected)}
  IN CHOOSE n \in lens :
       /\ n <= Len(ParserReceived)
       /\ \A m \in lens : m <= Len(ParserReceived) => m <= n

\* C31: after a parse call has returned, the parser retains exactly the
\* received bytes from the type tag of the first incomplete command on, and
\* its cursor is at their start
C31_RetainsIncompleteSuffix ==
  ~p_threw =>
    /\ buffer = Drop(ParserReceived, WholeCommandsLen)
    /\ position = 0

(***************************************************************************)
(* SpecTagParser: one parser fed the serialization of one command whose    *)
(* arguments may be the one-byte strings "*" and "$", as the pattern of a   *)
(* KEYS command is                                                         *)
(***************************************************************************)
TagWords == {<<"a">>, <<"*">>, <<"$">>}
TagCommands ==
  {<<w>> : w \in TagWords} \cup {<<w1, w2>> : w1 \in TagWords, w2 \in TagWords}
InitTagParser ==
  /\ p_expected \in {<<c>> : c \in TagCommands}
  /\ p_input = serialize(p_expected)
  /\ buffer = EmptyContext.buffer
  /\ position = EmptyContext.position
  /\ completed_values = EmptyContext.completed_values
  /\ p_chunks = 0
  /\ p_emitted = <<>>
  /\ p_threw = FALSE
  /\ ParkedData /\ ParkedConn /\ ParkedWorker /\ ParkedMore
SpecTagParser == InitTagParser /\ [][NextParser]_vars

\* C32: whatever the chunks the serialization of valid commands arrives in,
\* no parse call throws
C32_NoThrowOnValidInput == ~p_threw

(***************************************************************************)
(* SpecBadTag: one parser fed bytes that are no type tag and then the      *)
(* serialization of one command                                            *)
(***************************************************************************)
Garbage == {<<"x">>, <<"x", "y">>}
InitBadTag ==
  /\ p_expected \in {<<c>> : c \in Commands}
  /\ \E g \in Garbage : p_input = g \o serialize(p_expected)
  /\ buffer = EmptyContext.buffer
  /\ position = EmptyContext.position
  /\ completed_values = EmptyContext.completed_values
  /\ p_chunks = 0
  /\ p_emitted = <<>>
  /\ p_threw = FALSE
  /\ ParkedData /\ ParkedConn /\ ParkedWorker /\ ParkedMore
SpecBadTag == InitBadTag /\ [][NextParser]_vars

\* C33: a parse call given, in one chunk, bytes that are no type tag and
\* then a complete command returns that command
C33_CommandAfterBadBytesEmitted ==
  (p_chunks = 1 /\ p_input = <<>>) => p_emitted = p_expected

(***************************************************************************)
(* SpecCache: two threads calling put, get, remove and clear on a cache of *)
(* any of the policies, while time passes                                  *)
(***************************************************************************)
MaxOps == 3
CacheKeys == {"b", "c"}

InitCache ==
  /\ \E policy \in Policies : InitData(policy, 1, 1, 4, EmptyStore, FALSE)
  /\ ParkedParser /\ ParkedConn /\ ParkedWorker /\ ParkedMore

CacheSteps(t) ==
  \/ PutLock(t) \/ PutUpdate(t) \/ PutEvict(t) \/ PutAdd(t) \/ PutCleanupCheck(t)
  \/ CleanupLock(t) \/ CleanupScan(t)
  \/ GetLock(t) \/ GetPolicy(t) \/ GetExpiredRemove(t) \/ GetExpiredRelock(t)
  \/ GetPromote(t)
  \/ RemoveLock(t) \/ RemovePolicy(t)
  \/ ClearShard(t) \/ ClearSize(t)

NextCache ==
  \/ \E t \in Threads :
       \/ /\ n_ops < MaxOps
          /\ \/ \E k \in CacheKeys : CallPut(t, k, "1")
             \/ \E k \in CacheKeys : CallGet(t, k)
             \/ \E k \in CacheKeys : CallRemove(t, k)
             \/ CallClear(t)
       \/ CacheSteps(t)
  \/ Tick((ttl_ + 1) * 1000)

SpecCache == InitCache /\ [][NextCache]_vars

\* C7: hits + misses equals the number of get calls that have returned, on
\* every path of get: hit, miss, expired item, and the LRU promotion with
\* the key found again or gone.
C7_HitsPlusMisses == hits_ + misses_ = get_returns

\* a get whose second look-up, after the shared lock was dropped for the
\* exclusive one, found the key gone has returned
C7_PromoteMissReturned ==
  /\ res.op = "get" /\ res.path = "promote" /\ res.value = Absent
  /\ get_returns >= 1

\* C10: under TLRU a get of an item last accessed more than the TTL ago
\* returns absent - the call completes, and the expiration is counted.
C10_ExpiredGetReturnsAbsent ==
  /\ \A t \in Threads : frame[t].path = "expired" => pc[t] # "deadlocked"
  /\ (res.path = "expired") => (res.value = Absent /\ expirations_ >= 1)

\* C28: put(k, v) of a key that is not in the cache, called when
\* size >= capacity, evicts from the key's shard and returns: it does not
\* block for ever, and on return k is cached with value v and the shard's
\* lock is free
C28_PutOnFullCacheReturns ==
  [][\A t \in Threads :
       pc[t] = "put_evict" =>
         /\ pc'[t] # "deadlocked"
         /\ pc'[t] = "idle" =>
              /\ res'.value = "OK"
              /\ frame[t].key \in item_map'[get_shard_index(frame[t].key)]
              /\ shard_mutex'[get_shard_index(frame[t].key)] = Unlocked]_vars

\* C29: no thread locks a cache shard while it holds policy_mutex_, and no
\* thread locks policy_mutex_ while it holds it, in put, get, remove,
\* evict_items and cleanup_expired
HoldsShard(m, t) == m.writer = t \/ t \in m.readers
C29_PolicyLockIsInnermost ==
  [][\A t \in Threads :
       policy_mutex_ = t =>
         /\ \A s \in ShardIds :
              HoldsShard(shard_mutex'[s], t) => HoldsShard(shard_mutex[s], t)
         /\ pc'[t] # "get_expired_relock"]_vars

(***************************************************************************)
(* SpecMirror: two threads calling every operation that links or unlinks   *)
(* items, set_capacity for evict_items among them                          *)
(***************************************************************************)
MaxMirrorOps == 3
\* a is in shard 0, b is in shard 1
MirrorKeys == {"a", "b"}

InitMirror ==
  /\ \E policy \in Policies : InitData(policy, 2, 1, 4, EmptyStore, FALSE)
  /\ ParkedParser /\ ParkedConn /\ ParkedWorker /\ ParkedMore

NextMirror ==
  \/ \E t \in Threads :
       \/ /\ n_ops < MaxMirrorOps
          /\ \/ \E k \in MirrorKeys : CallPut(t, k, "1")
             \/ \E k \in MirrorKeys : CallGet(t, k)
             \/ \E k \in MirrorKeys : CallRemove(t, k)
             \/ CallSetCapacity(t, 1)
             \/ CallClear(t)
       \/ CacheSteps(t)
       \/ SetCapacity(t) \/ EvictLock(t) \/ EvictScan(t)
       \/ DeallocateAborts(t)
  \/ Tick((ttl_ + 1) * 1000)

SpecMirror == InitMirror /\ [][NextMirror]_vars

RECURSIVE ItemTotal(_)
ItemTotal(n) == IF n = 0 THEN 0 ELSE Len(items[n - 1]) + ItemTotal(n - 1)

\* C38: whenever no cache operation is in progress, size_ is the number of
\* items in all the shards together, and size_ never wraps below zero: it
\* never exceeds the number of keys there are
C38_SizeCountsItems ==
  /\ (\A t \in Threads : pc[t] = "idle") => size_ = ItemTotal(shard_count_)
  /\ size_ <= Cardinality(Keys)

(***************************************************************************)
(* SpecShrink: one thread filling a cache and shrinking its capacity       *)
(***************************************************************************)
MaxShrinkOps == 6
ShrinkKeys == {"b", "c", "e", "g", "h"}

InitShrink ==
  /\ InitData("LRU", 5, 1, 5, EmptyStore, FALSE)
  /\ ParkedParser /\ ParkedConn /\ ParkedWorker /\ ParkedMore

NextShrink ==
  \/ /\ n_ops < MaxShrinkOps
     /\ \/ \E k \in ShrinkKeys : CallPut("t1", k, "1")
        \/ CallGet("t1", "b")
        \/ CallRemove("t1", "b")
        \/ \E n \in {0, 1, 5} : CallSetCapacity("t1", n)
  \/ PutLock("t1") \/ PutUpdate("t1") \/ PutEvict("t1") \/ PutAdd("t1")
  \/ PutCleanupCheck("t1") \/ CleanupLock("t1") \/ CleanupScan("t1")
  \/ GetLock("t1") \/ GetPolicy("t1") \/ GetPromote("t1")
  \/ RemoveLock("t1") \/ RemovePolicy("t1")
  \/ SetCapacity("t1") \/ EvictLock("t1") \/ EvictScan("t1")

SpecShrink == InitShrink /\ [][NextShrink]_vars

\* C6: between calls of put, get, remove and set_capacity the cache holds
\* at most capacity + shard_count items.
C6_SizeBound ==
  (\A t \in Threads : pc[t] = "idle") => size_ <= capacity_ + shard_count_

\* C19: set_capacity(n) leaves capacity = n clamped to [min_capacity,
\* max_capacity] and, run with no other operation, returns with
\* size <= capacity however the items are spread over the shards
C19_ShrinkReachesCapacity ==
  [][\A t \in Threads :
       (frame[t].op = "set_capacity" /\ pc[t] # "idle" /\ pc'[t] = "idle") =>
         /\ capacity_' = Max(min_capacity_, Min(max_capacity_, frame[t].value))
         /\ size_' <= capacity_']_vars

(***************************************************************************)
(* SpecLru: one thread putting keys into an LRU cache of capacity 2        *)
(***************************************************************************)
MaxLruOps == 3
MaxLruNow == 3
LruKeys == {"a", "b", "c"}
LruCapacity == 2

InitLru ==
  /\ InitData("LRU", LruCapacity, 1, 4, EmptyStore, TRUE)
  /\ ParkedParser /\ ParkedConn /\ ParkedWorker /\ ParkedMore

NextLru ==
  \/ /\ n_ops < MaxLruOps
     /\ \E k \in LruKeys : CallPut("t1", k, "1")
  \/ PutLock("t1") \/ PutUpdate("t1") \/ PutEvict("t1") \/ PutAdd("t1")
  \/ PutCleanupCheck("t1") \/ CleanupLock("t1") \/ CleanupScan("t1")
  \/ (now < MaxLruNow /\ Tick(1))

SpecLru == InitLru /\ [][NextLru]_vars

Cached == UNION {item_map[s] : s \in ShardIds}
DistinctPuts(n) ==
  /\ Len(log) = n
  /\ \A i \in 1..n : log[i].op = "put"
  /\ \A i, j \in 1..n : i # j => log[i].key # log[j].key

\* C8: on an LRU cache of capacity N, after N+1 distinct keys were put in
\* order with no read in between, the first key is evicted and the others
\* are present; every one of the puts returns.
C8_OldestEvicted ==
  /\ \A t \in Threads :
       (DistinctPuts(LruCapacity) /\ frame[t].op = "put"
          /\ \A i \in 1..LruCapacity : log[i].key # frame[t].key)
       => pc[t] # "deadlocked"
  /\ DistinctPuts(LruCapacity + 1) =>
       /\ \A i \in 1..(LruCapacity + 1) : log[i].res = "OK"
       /\ log[1].key \notin Cached
       /\ \A i \in 2..(LruCapacity + 1) : log[i].key \in Cached

(***************************************************************************)
(* SpecStore: two threads running SET, GET and DEL against a store that    *)
(* was loaded from its files, the cache still empty                        *)
(***************************************************************************)
MaxStoreOps == 3
StoreKeys == {"b", "c"}
StoreValues == {"1", "2"}

InitStore ==
  /\ \E loaded \in {EmptyStore, [EmptyStore EXCEPT !["b"] = "3"]} :
       InitData("LRU", 1, 1, 4, loaded, FALSE)
  /\ ParkedParser /\ ParkedConn /\ ParkedWorker /\ ParkedMore

NextStore ==
  \E t \in Threads :
    \/ /\ n_ops < MaxStoreOps
       /\ \/ \E k \in StoreKeys, v \in StoreValues : StoreSet(t, k, v)
          \/ \E k \in StoreKeys : StoreGet(t, k)
          \/ \E k \in StoreKeys : StoreDel(t, k)
    \/ SetSubmap(t) \/ GetSubmap(t) \/ DelSubmap(t)
    \/ PutLock(t) \/ PutUpdate(t) \/ PutEvict(t) \/ PutAdd(t) \/ PutCleanupCheck(t)
    \/ CleanupLock(t) \/ CleanupScan(t)
    \/ GetLock(t) \/ GetPolicy(t) \/ GetPromote(t)
    \/ RemoveLock(t) \/ RemovePolicy(t)

SpecStore == InitStore /\ [][NextStore]_vars

\* C1: a GET k that starts after a SET k v has completed, with no other
\* write of k overlapping that SET or started since, returns v.
C1_ReadsSeeCompletedWrite ==
  (res.op = "GET" /\ res.expect \notin {None, Absent}) => res.value = res.expect

\* C12: DEL k replies :1 exactly when k was in its sub-map and :0 otherwise;
\* when it has completed k is in no sub-map and, if no other operation on k
\* ran meanwhile, not in the cache; no step of a DEL changes what the
\* sub-maps or the cache hold for another key
C12_DelRemovesKeyOnly ==
  [][\A t \in Threads :
       (frame[t].op = "DEL" /\ pc'[t] # pc[t]) =>
         LET k == frame[t].key
         IN /\ \A j \in Keys \ {k} : submap_store'[j] = submap_store[j]
            /\ \A s \in ShardIds : Erase(items'[s], k) = Erase(items[s], k)
            /\ (pc'[t] = "idle" /\ res'.value # Threw) =>
                 /\ handle_del(res'.value) =
                      (IF submap_store[k] # Absent THEN <<":", "1", CR, LF>>
                                                  ELSE <<":", "0", CR, LF>>)
                 /\ submap_store'[k] = Absent
                 /\ frame[t].alone => k \notin Cached']_vars

\* a DEL of a stored key has completed with no other operation on its key
\* meanwhile, another key still being stored
C12_DelOfStoredKeyAlone ==
  /\ res.op = "DEL" /\ res.alone /\ res.value = "true"
  /\ \E j \in Keys \ {res.key} : submap_store[j] # Absent

\* C26: once a DEL k has completed, no SET k overlapping it or started
\* since, every GET k that starts afterwards returns absent, also when
\* another GET k ran concurrently with the DEL
C26_NoResurrection ==
  (res.op = "GET" /\ res.expect = Absent) => res.value = Absent

\* C27: whenever no store operation is in progress, every key the cache
\* holds is in its sub-map with the same value
C27_CacheAgreesWithStore ==
  (\A t \in Threads : pc[t] = "idle") =>
    \A s \in ShardIds : \A i \in 1..Len(items[s]) :
      submap_store[items[s][i].key] = items[s][i].value

\* C30: while a thread holds the lock of a sub-map it acquires no other lock:
\* no second sub-map's lock, no cache shard's lock and not policy_mutex_
HoldsSubmap(t) == \E m \in SubMapIds : HoldsShard(submap_mutex[m], t)
C30_SubmapLockHeldAlone ==
  [][\A t \in Threads :
       HoldsSubmap(t) =>
         /\ \A s \in ShardIds :
              HoldsShard(shard_mutex'[s], t) => HoldsShard(shard_mutex[s], t)
         /\ \A m \in SubMapIds :
              HoldsShard(submap_mutex'[m], t) => HoldsShard(submap_mutex[m], t)
         /\ policy_mutex_' = t => policy_mutex_ = t]_vars

(***************************************************************************)
(* SpecScenario: one connection sending SET and GET commands to a server   *)
(* whose cache has capacity 2                                              *)
(***************************************************************************)
MaxScenarioOps == 5
ScenarioWrites == {<<"a", "1">>, <<"b", "2">>, <<"c", "3">>}

InitScenario ==
  /\ InitData("LRU", 2, 1, 4, EmptyStore, TRUE)
  /\ ParkedParser /\ ParkedConn /\ ParkedWorker /\ ParkedMore

NextScenario ==
  \/ /\ n_ops < MaxScenarioOps
     /\ \/ \E kv \in ScenarioWrites : StoreSet("t1", kv[1], kv[2])
        \/ \E kv \in ScenarioWrites : StoreGet("t1", kv[1])
  \/ SetSubmap("t1") \/ GetSubmap("t1")
  \/ PutLock("t1") \/ PutUpdate("t1") \/ PutEvict("t1") \/ PutAdd("t1")
  \/ PutCleanupCheck("t1") \/ CleanupLock("t1") \/ CleanupScan("t1")
  \/ GetLock("t1") \/ GetPolicy("t1") \/ GetPromote("t1")

SpecScenario == InitScenario /\ [][NextScenario]_vars

\* handle_set: "+OK\r\n"
handle_set == <<"+", "O", "K", CR, LF>>
\* the reply to a logged command; none when the handler left by an exception
Reply(e) ==
  IF e.res = Threw THEN <<>>
  ELSE IF e.op = "SET" THEN handle_set
  ELSE handle_get(e.res)

Cmd(op, key, reply) == [op |-> op, key |-> key, reply |-> reply]
LruScenario ==
  << Cmd("SET", "a", handle_set), Cmd("SET", "b", handle_set),
     Cmd("GET", "a", handle_get("1")), Cmd("SET", "c", handle_set),
     Cmd("GET", "b", handle_get(Absent)) >>
Follows(n) ==
  /\ n <= Len(log)
  /\ n <= Len(LruScenario)
  /\ \A j \in 1..n : log[j].op = LruScenario[j].op /\ log[j].key = LruScenario[j].key

\* C9: with capacity 2, SET a 1, SET b 2, GET a, SET c 3 are answered, and
\* the GET b that follows replies null (b is the least recently used key).
C9_LruScenario ==
  /\ \A t \in Threads :
       (Follows(Len(log)) /\ Len(log) < Len(LruScenario)
          /\ frame[t].op = LruScenario[Len(log) + 1].op
          /\ frame[t].key = LruScenario[Len(log) + 1].key)
       => pc[t] # "deadlocked"
  /\ \A n \in 1..Len(log) : Follows(n) => Reply(log[n]) = LruScenario[n].reply

(***************************************************************************)
(* SpecConn: one connection of RedisServer; the client sends two commands  *)
(***************************************************************************)
ConnStream == serialize(<< <<<<"a">>>>, <<<<"b">>>> >>)

InitConn ==
  /\ InitConnection(ConnStream)
  /\ ParkedParser /\ ParkedData /\ ParkedWorker /\ ParkedMore

NextConn ==
  \/ \E n \in ArrivalSizes(Len(ConnStream) - Len(net_in), Len(net_in)) : Arrive(n)
  \/ Drain
  \/ epoll_loop
  \/ \E r \in ReadThreads : ReadStart(r)
  \/ \E r \in ReadThreads : handle_read(r)
  \/ \E c \in CommandThreads : CommandStart(c)
  \/ \E c \in CommandThreads : process_commands(c)
  \/ \E w \in WriteThreads : WriteStart(w)
  \/ \E w \in WriteThreads : WriteSend(w)
  \/ \E w \in WriteThreads : WriteUpdate(w)

SpecConn == InitConn /\ [][NextConn]_vars

\* C2: the replies stored in the connection's write buffer are in the order
\* in which the commands were parsed from its byte stream
C2_RepliesInParseOrder ==
  IsPrefix(appended, SeqConcat(handle_pipeline(parsed)))

\* C4: the bytes handed to send() are a prefix of the replies stored in the
\* write buffer: none is sent twice, skipped or reordered
C4_SentIsPrefixOfAppended == IsPrefix(sent, appended)

\* C25: a read hands the bytes it took from the socket to the connection's
\* parser once: the parser's state and the commands obtained after the read
\* are those of one parse of these bytes by the parser as it was before
C25_ReceivedBytesParsedOnce ==
  [][(sock_in # <<>> /\ sock_in' = <<>>) =>
       LET once == parse(conn_parser, sock_in)
       IN /\ conn_parser' = [buffer |-> once.buffer, position |-> once.position,
                             completed_values |-> once.completed_values]
          /\ parsed' = parsed \o once.cmds]_vars

(***************************************************************************)
(* SpecBadLength: one connection that sends the command b, an array header *)
(* whose length is no integer, and the command a                           *)
(***************************************************************************)
BadLengthStream ==
  serialize(<< <<<<"b">>>> >>) \o <<"*", "x", CR, LF>> \o serialize(<< <<<<"a">>>> >>)

InitBadLength ==
  /\ InitConnection(BadLengthStream)
  /\ ParkedParser /\ ParkedData /\ ParkedWorker /\ ParkedMore

NextBadLength ==
  \/ \E n \in ArrivalSizes(Len(BadLengthStream) - Len(net_in), Len(net_in)) : Arrive(n)
  \/ Drain
  \/ epoll_loop
  \/ \E r \in ReadThreads : ReadStart(r)
  \/ \E r \in ReadThreads : handle_read(r)
  \/ \E c \in CommandThreads : CommandStart(c)
  \/ \E c \in CommandThreads : process_commands(c)
  \/ \E w \in WriteThreads : WriteStart(w)
  \/ \E w \in WriteThreads : WriteSend(w)
  \/ \E w \in WriteThreads : WriteUpdate(w)

SpecBadLength == InitBadLength /\ [][NextBadLength]_vars

\* every byte has arrived and been read, and no read or command task is
\* queued or running
ReadingDone ==
  /\ net_in = <<>> /\ sock_in = <<>> /\ ~epollin_ready /\ read_queue = 0
  /\ \A r \in ReadThreads : read_task[r] = "idle"
  /\ cmd_queue = <<>> /\ \A c \in CommandThreads : cmd_task[c] = <<>>

\* C34: when the header with the unparseable length and the commands
\* around it have been read, the parser holds no byte of the bad header, the
\* commands b and a have been parsed, and the client's replies hold an
\* error reply besides the replies to the two commands
C34_BadLengthAnsweredAndRecovered ==
  ReadingDone =>
    /\ conn_parser.buffer = <<>>
    /\ parsed = << <<<<"b">>>>, <<<<"a">>>> >>
    /\ Len(appended) > Len(SeqConcat(handle_pipeline(parsed)))

(***************************************************************************)
(* SpecWorker: one client of a WorkerThread                                *)
(***************************************************************************)
InitWorker ==
  /\ \E stream \in CommandSeqs, room \in 0..SockCapacity : InitClientInfo(stream, room)
  /\ ParkedParser /\ ParkedData /\ ParkedConn /\ ParkedMore

NextWorker ==
  \/ \E epollin \in BOOLEAN, k \in 1..Len(wk_pending) : handle_client_event(epollin, k)
  \/ \E k \in 1..SockCapacity : WorkerDrain(k)

SpecWorker == InitWorker /\ [][NextWorker]_vars

\* C5: a short write or a would-block result of send leaves the unsent reply
\* bytes queued: what was produced is what was sent followed by what waits in
\* the client's write buffer
C5_UnsentStaysQueued == wk_produced = wk_sent \o wk_write_buffer

(***************************************************************************)
(* SpecHandler: one thread handing commands to CommandHandler::handle      *)
(***************************************************************************)
MaxHandlerOps == 2
PING == <<"P", "I", "N", "G">>
SET == <<"S", "E", "T">>
GET == <<"G", "E", "T">>
DEL == <<"D", "E", "L">>
MSET == <<"M", "S", "E", "T">>
MGET == <<"M", "G", "E", "T">>
INFO == <<"I", "N", "F", "O">>
Set == <<"S", "e", "t">>
HandlerCommands ==
  {<<>>, <<PING>>, <<PING, "b">>,
   <<SET, "b", "1">>, <<Set, "c", "2">>, <<SET, "b">>, <<SET, "b", "1", "2">>,
   <<GET, "b">>, <<GET>>, <<GET, "b", "c">>,
   <<DEL, "b">>, <<DEL>>, <<DEL, "b", "c">>,
   <<MSET, "b", "1", "b", "2">>, <<MSET, "b", "1", "c", "2">>, <<MSET>>,
   <<MSET, "b">>, <<MSET, "b", "1", "c">>,
   <<MGET, "b", "c">>, <<MGET>>,
   <<INFO>>}

InitHandler ==
  /\ \E loaded \in {EmptyStore, [EmptyStore EXCEPT !["b"] = "3"]} :
       InitData("LRU", 1, 1, 4, loaded, FALSE)
  /\ ParkedParser /\ ParkedConn /\ ParkedWorker /\ ParkedMore

NextHandler ==
  \/ n_ops < MaxHandlerOps /\ \E cmd \in HandlerCommands : Handle("t1", cmd)
  \/ NextArgument("t1")
  \/ SetSubmap("t1") \/ GetSubmap("t1") \/ DelSubmap("t1")
  \/ PutLock("t1") \/ PutUpdate("t1") \/ PutEvict("t1") \/ PutAdd("t1")
  \/ PutCleanupCheck("t1") \/ CleanupLock("t1") \/ CleanupScan("t1")
  \/ GetLock("t1") \/ GetPolicy("t1") \/ GetPromote("t1")
  \/ RemoveLock("t1") \/ RemovePolicy("t1")

SpecHandler == InitHandler /\ [][NextHandler]_vars

\* the commands C11 speaks of, and the replies it allows for them
KnownNames == {name_set, name_get, name_del, name_mset, name_mget, name_info}
HasWrongArguments(cmd) ==
  LET name == tolower(cmd[1])
      n == Len(cmd) - 1
  IN \/ name = name_set /\ n # 2
     \/ name = name_get /\ n # 1
     \/ name = name_del /\ n # 1
     \/ name = name_mset /\ (n < 2 \/ n % 2 = 1)
     \/ name = name_mget /\ n < 1
IsErroneous(cmd) ==
  cmd # <<>> /\ (tolower(cmd[1]) \notin KnownNames \/ HasWrongArguments(cmd))
ErrorReplies(cmd) ==
  IF tolower(cmd[1]) \notin KnownNames
  THEN {unknown_command(cmd[1]), unknown_command(tolower(cmd[1]))}
  ELSE {wrong_arguments(tolower(cmd[1]))}

\* C11: a command with an unknown name or a wrong number of arguments is
\* answered with the matching error, and handling it changes neither the
\* sub-maps nor the cache
C11_ErrorsLeaveDataUnchanged ==
  [][\A cmd \in HandlerCommands :
       (Handle("t1", cmd) /\ IsErroneous(cmd)) =>
         /\ res'.value = "reply" /\ res'.acc \in ErrorReplies(cmd)
         /\ UNCHANGED <<submap_store, items, item_map>>]_vars

\* an unpaired MSET has been refused while the store and the cache held data
C11_ErrorAfterData ==
  /\ res.value = "reply" /\ res.acc = wrong_arguments(name_mset)
  /\ \E k \in Keys : submap_store[k] # Absent
  /\ Cached # {}

\* C15: the length announced in the header of the INFO reply is the number
\* of bytes of its body
C15_InfoLength ==
  res.op = "INFO" =>
    LET crlf == find_crlf(res.acc, 1)
    IN stoi(Substr(res.acc, 1, crlf - 1)).val = Len(res.acc) - (crlf + 2) - 2

(***************************************************************************)
(* SpecAssign: clients are assigned to three workers and disconnect        *)
(***************************************************************************)
InitAssign ==
  /\ InitWorkers
  /\ ParkedParser /\ ParkedData /\ ParkedConn /\ ParkedWorker /\ ParkedAccept
  /\ ParkedBuffers /\ ParkedRouting /\ ParkedLater

NextAssign ==
  \/ \E client_fd \in AssignFds : AssignStart(client_fd)
  \/ AssignScan
  \/ add_client
  \/ AssignRecord
  \/ \E w \in WorkerIds, client_fd \in AssignFds : remove_client(w, client_fd)

SpecAssign == InitAssign /\ [][NextAssign]_vars

\* the lowest index among the workers with the fewest clients
LeastLoaded(counts) ==
  CHOOSE w \in WorkerIds :
    /\ \A v \in WorkerIds : counts[w] <= counts[v]
    /\ \A v \in WorkerIds : counts[v] = counts[w] => w <= v

InitAccept ==
  /\ InitServer
  /\ ParkedParser /\ ParkedData /\ ParkedConn /\ ParkedWorker /\ ParkedAssign
  /\ ParkedBuffers /\ ParkedRouting /\ ParkedLater

NextAccept ==
  \/ Connect
  \/ accept_new_connections
  \/ \E fd \in ServerFds : ClientSend(fd)
  \/ \E fd \in ServerFds : PeerClose(fd)
  \/ \E r \in ReadTasks, fd \in ServerFds : ReadBegin(r, fd)
  \/ \E r \in ReadTasks : Recv(r)
  \/ \E r \in ReadTasks : ParseReceived(r)

SpecAccept == InitAccept /\ [][NextAccept]_vars

\* C13: the number of registered connections never exceeds max_connections
C13_ConnectionLimit ==
  Cardinality({fd \in ServerFds : heap.clients[fd] # NoContext}) <= max_connections

\* C18: the context a connection is registered with has both positions 0,
\* both buffers at the initial size and no large-buffer flag, and the parser
\* of its fd holds no bytes
C18_FreshConnectionState ==
  [][\A fd \in ServerFds :
       (heap.clients[fd] = NoContext /\ heap'.clients[fd] # NoContext) =>
         LET c == heap'.contexts[heap'.clients[fd]]
         IN /\ c.read_pos = 0 /\ c.write_pos = 0
            /\ c.read_buffer.size = INITIAL_BUFFER_SIZE
            /\ c.write_buffer.size = INITIAL_BUFFER_SIZE
            /\ ~c.has_large_buffer
            /\ parsers_'[fd] # <<>> => parsers_'[fd][1].buffer = <<>>]_vars

\* C23: no two read tasks are inside handle_read for the same connection
\* (the same fd and the same context) at the same time
C23_SingleReadTask ==
  \A r1 \in ReadTasks : \A r2 \in ReadTasks \ {r1} :
    (rd[r1].pc # "idle" /\ rd[r2].pc # "idle") =>
      ~(rd[r1].client_fd = rd[r2].client_fd /\ rd[r1].client = rd[r2].client)

(***************************************************************************)
(* SpecBuffers: two threads acquire and release buffers; at the start one  *)
(* pool is empty or a few buffers short of MAX_POOL_SIZE                   *)
(***************************************************************************)
InitBufferManager ==
  /\ \E class \in Sizes, filled \in {0, MAX_POOL_SIZE - MaxFill} : InitBuffers(class, filled)
  /\ ParkedParser /\ ParkedData /\ ParkedConn /\ ParkedWorker /\ ParkedAssign
  /\ ParkedAccept /\ ParkedRouting /\ ParkedLater

NextBuffers ==
  \E t \in BufferThreads :
    \/ \E size \in Sizes : acquire(t, size)
    \/ upgrade_buffer(t) \/ return_buffers_new(t)
    \/ release_clear(t) \/ release_push(t)

SpecBuffers == InitBufferManager /\ [][NextBuffers]_vars

\* C16: what acquire(class) returns has capacity >= the class size and
\* length 0, recycled or new; every buffer in a pool has length 0 and is in
\* the pool of the largest class that is <= its capacity
C16_BufferContract ==
  [][/\ \A t \in BufferThreads, size \in Sizes :
          acquire(t, size) =>
            /\ buffers'[held'[t].buffer].capacity >= size
            /\ buffers'[held'[t].buffer].size = 0
     /\ \A t \in BufferThreads :
          (release_push(t) /\ pools' # pools) =>
            \E class \in Sizes :
              LET b == buffers'[held[t].buffer]
              IN /\ pools'[class] = Append(pools[class], held[t].buffer)
                 /\ b.size = 0
                 /\ class <= b.capacity
                 /\ \A larger \in Sizes : larger <= b.capacity => larger <= class]_vars

\* C17: no pool holds more than 100 buffers, and no buffer is in a pool
\* twice or in two pools
InPoolOf(class) == {pools[class][i] : i \in 1..Len(pools[class])}
C17_PoolsBoundedAndDisjoint ==
  /\ \A class \in Sizes : Len(pools[class]) <= 100
  /\ \A class \in Sizes : Cardinality(InPoolOf(class)) = Len(pools[class])
  /\ \A c, d \in Sizes : c # d => InPoolOf(c) \cap InPoolOf(d) = {}

\* a pool is full, a buffer released to it has been deleted, and a thread
\* is about to push one more to it
C17_FullPoolUnderContention ==
  /\ \E b \in BufferIds : b < next_buffer /\ ~buffers[b].live
  /\ \E class \in Sizes :
       /\ Len(pools[class]) = MAX_POOL_SIZE
       /\ \E t \in BufferThreads : held[t].pc = "push" /\ get_pool(held[t].size) = class

(***************************************************************************)
(* The store's routing: operations on a few keys, flushes, and restarts    *)
(* of the server with either shard count.                                  *)
(***************************************************************************)
InitRouting ==
  /\ \E shard_count \in ShardCounts : InitDataStore(shard_count)
  /\ ParkedParser /\ ParkedData /\ ParkedConn /\ ParkedWorker /\ ParkedAssign
  /\ ParkedAccept /\ ParkedBuffers /\ ParkedLater
NextRouting ==
  \/ \E key \in RoutedKeys, value \in StoredValues : set(key, value)
  \/ \E key \in RoutedKeys : get(key)
  \/ \E key \in RoutedKeys : del(key)
  \/ \E kvs \in Batches(RoutedKeys \X StoredValues) : multi_set(kvs)
  \/ \E keys \in Batches(RoutedKeys) : multi_get(keys)
  \/ \E keys \in Batches(RoutedKeys) : multi_del(keys)
  \/ \E keys \in Batches(RoutedKeys) : prefetch(keys)
  \/ flush
  \/ \E shard_count \in ShardCounts : Restart(shard_count)
SpecRouting == InitRouting /\ [][NextRouting]_vars

\* C20: in every reachable state a key is stored in at most one sub-map: the
\* entries that hold a key all lie in one (shard, bucket, sub-map)
C20_KeyInOneSubMap ==
  \A key \in RoutedKeys :
    Cardinality({SubMapAt(e) : e \in {x \in sub_maps : x.key = key}}) <= 1

(***************************************************************************)
(* SpecReply: connections come and go on two fd numbers while their        *)
(* command tasks wait for and run on two command threads                   *)
(***************************************************************************)
ParkedEarlier ==
  /\ ParkedParser /\ ParkedData /\ ParkedConn /\ ParkedWorker /\ ParkedAssign
  /\ ParkedAccept /\ ParkedBuffers /\ ParkedRouting

InitReplies == InitReply /\ ParkedEarlier /\ ParkedStop /\ ParkedRun /\ ParkedLast
NextReply ==
  \/ AcceptClient
  \/ \E fd \in ReplyFds : ReadCommands(fd)
  \/ \E fd \in ReplyFds : ReadClosed(fd)
  \/ \E c \in ReplyThreads : TakeCommands(c)
  \/ \E c \in ReplyThreads : ProcessCommands(c)
SpecReply == InitReplies /\ [][NextReply]_vars

\* C24: the write buffer of a connection receives only the replies to
\* commands that were received on this connection
C24_RepliesToOwnConnection ==
  \A conn \in ConnIds : reply_written[conn] \subseteq {conn}

(***************************************************************************)
(* SpecStop: a pool of two workers is started and stopped while two fds    *)
(* are assigned and removed                                                *)
(***************************************************************************)
InitStop == InitPool /\ ParkedEarlier /\ ParkedReply /\ ParkedRun /\ ParkedLast
NextStop ==
  \/ StartPool
  \/ StopPool
  \/ \E fd \in StopFds : AssignClient(fd)
  \/ \E fd \in StopFds : PoolRemoveClient(fd)
  \/ \E w \in StopWorkers, fd \in StopFds : WorkerRemoveClient(w, fd)
SpecStop == InitStop /\ [][NextStop]_vars

\* C22: when stop() of the pool returns, no worker runs or is left to
\* join, no client is registered with a worker (no entry in clients_, no
\* client counted), and every fd that was registered when stop() was called
\* has been closed once and is mapped to no worker
C22_StopLeavesNothingRegistered ==
  [][pool_last' = "stop" =>
       /\ \A w \in StopWorkers :
            /\ ~pool_workers'[w].running_ /\ ~pool_workers'[w].joinable
            /\ pool_workers'[w].clients_ = {}
            /\ pool_workers'[w].client_count_ = 0
       /\ \A w \in StopWorkers : \A fd \in pool_workers[w].clients_ :
            pool_closes'[fd] = 1 /\ pool_mapping'[fd] = NoWorker]_vars

(***************************************************************************)
(* SpecRun: run() with two clients, and stop() called at any time.  The    *)
(* thread in run() and the pool threads keep taking steps; nothing obliges *)
(* a client, a signal or a failure of epoll_wait to come.                  *)
(***************************************************************************)
InitRunning == InitRun /\ ParkedEarlier /\ ParkedReply /\ ParkedStop /\ ParkedLast
NextRun ==
  \/ RunStart
  \/ ConnectionArrives
  \/ \E fd \in RunFds : ClientReadable(fd)
  \/ EpollWait
  \/ EpollWaitFails
  \/ DispatchEvents
  \/ PrintStats
  \/ StatsInterval
  \/ \E j \in AcceptSlots : AcceptTaskDone(j)
  \/ ReadTaskDone
  \/ stop
SpecRun ==
  /\ InitRunning /\ [][NextRun]_vars
  /\ WF_vars(RunStart) /\ WF_vars(EpollWait) /\ WF_vars(DispatchEvents)
  /\ WF_vars(PrintStats)
  /\ WF_vars(\E j \in AcceptSlots : AcceptTaskDone(j)) /\ WF_vars(ReadTaskDone)

\* C21: after stop() has been called run() eventually returns
C21_RunReturnsAfterStop == stop_requested ~> (run_pc = "returned")

(***************************************************************************)
(* SpecBounds: one connection whose buffers the handlers fill and empty    *)
(***************************************************************************)
InitBounds ==
  /\ InitContext /\ ParkedEarlier /\ ParkedReply /\ ParkedStop /\ ParkedRun
  /\ ParkedBatch /\ ParkedTasks
NextBounds ==
  \/ \E n \in RecvSizes : ReadNoCommand(n)
  \/ \E total_size \in ReplySizes : ReadWholeCommands(total_size)
  \/ \E t \in BoundsThreads : EnsureWrite(t)
  \/ \E t \in BoundsThreads : CopyReplies(t)
  \/ SendReplies
  \/ SentUpdate
SpecBounds == InitBounds /\ [][NextBounds]_vars

\* C35: read_pos never exceeds the size of the read buffer, write_pos never
\* exceeds the size of the write buffer, neither size exceeds
\* MAX_BUFFER_SIZE, and no copy writes past the end of a buffer
C35_BufferBounds ==
  /\ bctx.read_pos <= bctx.read_buffer.size
  /\ bctx.write_pos <= bctx.write_buffer.size
  /\ bctx.read_buffer.size <= MAX_BUFFER_SIZE
  /\ bctx.write_buffer.size <= MAX_BUFFER_SIZE
  /\ ~b_overrun

\* C36: a round of handle_read whose bytes would bring read_pos above
\* MAX_BUFFER_SIZE stores none of them: it leaves read_pos and write_pos at
\* zero and copies nothing past the end of the read buffer
C36_OverflowResetsBuffers ==
  [][(b_last'.op = "read" /\ bctx.read_pos + b_last'.n > MAX_BUFFER_SIZE)
       => (bctx'.read_pos = 0 /\ bctx'.write_pos = 0 /\ b_overrun' = b_overrun)]_vars


(***************************************************************************)
(* SpecBatch: one caller of the single and the batch operations of a store *)
(***************************************************************************)
InitBatch ==
  /\ \E filled \in {<<{}, {}>>, <<{"e", "g"}, {}>>, <<BatchKeys, {"e"}>>} :
       InitBatchStore(filled[1], filled[2])
  /\ ParkedBounds
  /\ ParkedParser /\ ParkedData /\ ParkedConn /\ ParkedWorker /\ ParkedAssign
  /\ ParkedAccept /\ ParkedBuffers /\ ParkedReply /\ ParkedStop /\ ParkedRun
  /\ ParkedTasks
NextBatch ==
  \/ /\ n_kv_ops < MaxBatchOps
     /\ \/ \E key \in BatchKeys, value \in StoredValues : set(key, value)
        \/ \E key \in BatchKeys : get(key)
        \/ \E key \in BatchKeys : del(key)
  \/ \E kvs \in BatchesOf(BatchKeys \X StoredValues) : MultiSet(kvs)
  \/ \E keys \in BatchesOf(BatchKeys) : MultiGet(keys)
  \/ \E keys \in BatchesOf(BatchKeys) : MultiDel(keys)
SpecBatch == InitBatch /\ [][NextBatch]_vars

\* what get(keys[1]), get(keys[2]), ... return, called one after the other
RECURSIVE GetsOneByOne(_, _, _)
GetsOneByOne(cache, maps, keys) ==
  IF keys = <<>> THEN <<>>
  ELSE LET value == IF cache[keys[1]] # Absent THEN cache[keys[1]]
                    ELSE store_find(maps, Route(keys[1]), keys[1])
       IN <<value>> \o GetsOneByOne([cache EXCEPT ![keys[1]] = value], maps, Tail(keys))
NoLockTwice(locks) == \A i, j \in 1..Len(locks) : locks[i] = locks[j] => i = j
LockedSubMaps(locks) == {locks[i] : i \in 1..Len(locks)}

InitTasks ==
  /\ InitThreadPool /\ ParkedEarlier /\ ParkedReply /\ ParkedStop /\ ParkedRun
  /\ ParkedBounds /\ ParkedBatch
NextTasks ==
  \/ \E t \in PoolThreads : Enqueue(t)
  \/ \E t \in PoolThreads : NeedSwitchCount(t)
  \/ \E t \in PoolThreads : NeedSwitchCompare(t)
  \/ \E t \in PoolThreads : NeedSwitchReturn(t)
  \/ \E t \in PoolThreads : LockSwitch(t)
  \/ \E t \in PoolThreads : switch_buffers(t)
  \/ \E t \in PoolThreads : WorkerTake(t)
  \/ \E t \in PoolThreads : WorkerWait(t)
  \/ \E t \in PoolThreads : WorkerRun(t)
  \/ \E t \in PoolThreads : WorkerIdle(t)
  \/ Shutdown
  \/ TimePasses
SpecTasks ==
  /\ InitTasks /\ [][NextTasks]_vars
  /\ \A t \in PoolThreads : SF_vars(Proceed(t))
  /\ WF_vars(TimePasses)

\* C40: a task that enqueue has accepted is never run twice, and unless the
\* pool is shut down it is run at some time, also when fewer tasks than the
\* threshold are submitted and only the wait can make the buffers switch
C40_AcceptedTaskRunsOnce ==
  \A k \in 1..MaxSubmitted :
    /\ [](ran[k] <= 1)
    /\ (total_tasks >= k) ~> (ran[k] = 1 \/ stop_)

\* no task is run twice, and a task that has been run was accepted
C40_NoTaskRunsTwice ==
  \A k \in 1..MaxSubmitted : ran[k] <= 1 /\ (ran[k] = 1 => total_tasks >= k)

\* the buffers have been switched with fewer tasks than the threshold
C40_SwitchedBelowThreshold == write_buffer_ = 1 /\ total_tasks < INITIAL_THRESHOLD

====
